---------------------------- MODULE Spec2Model ----------------------------
(***************************************************************************)
(* SIGLAB-AVIARIO: egg-production records per aviary, flock                *)
(* characterization snapshots, derived metrics, fortnight bucketing, CSV   *)
(* import/export and the App component's collections.                      *)
(*                                                                         *)
(* JavaScript strings are modelled as sequences of one-character strings,  *)
(* so that formatting, splitting and parsing are computed character by     *)
(* character.  Numbers are integers.  A value that may be null or          *)
(* undefined is a sequence: << >> when absent, <<v>> when present.         *)
(***************************************************************************)
EXTENDS Integers, Sequences, FiniteSets, TLC

VARIABLES
    rawRecords,                 \* App: useState<EggRecord[]>
    charRecords,                \* App: useState<CharacterizationRecord[]>
    currentView,                \* App: useState<ViewState>
    editingId,                  \* App: useState<string | null>
    deleteId,                   \* App: useState<string | null>
    deleteCharId,               \* App: useState<string | null>
    showDeleteAllConfirm,       \* App: useState(false)
    showDeleteAllCharConfirm,   \* App: useState(false)
    filter,                     \* App: useState<FilterState>
    storedRecords,              \* localStorage item of STORAGE_KEY: << >> when null
    storedChars,                \* localStorage item of STORAGE_KEY_CHAR: << >> when null
    mountStep,                  \* the effect of the mount that runs next, "idle" after it
    loaded,                     \* the state updates queued by the load effect
    lastCall                    \* the last operation applied, its inputs and its result

dataVars == <<rawRecords, charRecords>>
uiVars == <<currentView, editingId, deleteId, deleteCharId,
            showDeleteAllConfirm, showDeleteAllCharConfirm, filter>>
storageVars == <<storedRecords, storedChars>>
mountVars == <<mountStep, loaded>>
vars == <<rawRecords, charRecords, currentView, editingId, deleteId, deleteCharId,
          showDeleteAllConfirm, showDeleteAllCharConfirm, filter,
          storedRecords, storedChars, mountStep, loaded, lastCall>>

(***************************************************************************)
(* Strings                                                                 *)
(***************************************************************************)

\* The characters the model uses, in UTF-16 code unit order (the order of
\* the JavaScript relational operators on strings).
CodeOrder ==
    << "\n", " ", "\"", "(", ")", ",", "-", ".", "/",
       "0", "1", "2", "3", "4", "5", "6", "7", "8", "9", ";",
       "A", "B", "C", "D", "E", "F", "G", "H", "I", "J", "K", "L", "M",
       "N", "O", "P", "Q", "R", "S", "T", "U", "V", "W", "X", "Y", "Z",
       "a", "b", "c", "d", "e", "f", "g", "h", "i", "j", "k", "l", "m",
       "n", "o", "p", "q", "r", "s", "t", "u", "v", "w", "x", "y", "z",
       "ª", "á", "ã", "ç" >>

CharCode(c) == CHOOSE i \in 1..Len(CodeOrder) : CodeOrder[i] = c

Digits == <<"0", "1", "2", "3", "4", "5", "6", "7", "8", "9">>

IsDigit(c) == \E i \in 1..10 : Digits[i] = c

DigitValue(c) == (CHOOSE i \in 1..10 : Digits[i] = c) - 1

\* a < b on strings
RECURSIVE StrLess(_, _)
StrLess(a, b) ==
    IF b = << >> THEN FALSE
    ELSE IF a = << >> THEN TRUE
    ELSE IF Head(a) = Head(b) THEN StrLess(Tail(a), Tail(b))
    ELSE CharCode(Head(a)) < CharCode(Head(b))

\* a <= b on strings
StrLeq(a, b) == a = b \/ StrLess(a, b)

\* a.localeCompare(b), for strings of digits and hyphens: -1, 0 or 1
localeCompare(a, b) == IF a = b THEN 0 ELSE IF StrLess(a, b) THEN -1 ELSE 1

\* pat occurs in s at position i (1-based)
OccursAt(s, pat, i) ==
    /\ i + Len(pat) - 1 <= Len(s)
    /\ \A k \in 1..Len(pat) : s[i + k - 1] = pat[k]

\* The least position >= from where pat occurs in s, 0 when there is none.
IndexOfFrom(s, pat, from) ==
    IF \E i \in from..(Len(s) - Len(pat) + 1) : OccursAt(s, pat, i)
    THEN CHOOSE i \in from..(Len(s) - Len(pat) + 1) :
            /\ OccursAt(s, pat, i)
            /\ \A j \in from..(i - 1) : ~OccursAt(s, pat, j)
    ELSE 0

\* s.includes(pat)
Includes(s, pat) == pat = << >> \/ IndexOfFrom(s, pat, 1) # 0

\* s.split(sep), sep a non-empty string
RECURSIVE Split(_, _)
Split(s, sep) ==
    LET i == IndexOfFrom(s, sep, 1)
    IN  IF i = 0 THEN <<s>>
        ELSE <<SubSeq(s, 1, i - 1)>> \o Split(SubSeq(s, i + Len(sep), Len(s)), sep)

\* s.substring(0, n)
Substring0(s, n) == SubSeq(s, 1, IF n < Len(s) THEN n ELSE Len(s))

\* s.padStart(2, '0')
PadStart2(s) == IF Len(s) >= 2 THEN s ELSE IF Len(s) = 1 THEN <<"0">> \o s ELSE <<"0", "0">>

\* String(n) for an integer n
RECURSIVE NatToString(_)
NatToString(n) ==
    IF n < 10 THEN <<Digits[n + 1]>>
    ELSE NatToString(n \div 10) \o <<Digits[(n % 10) + 1]>>

NumberToString(n) == IF n < 0 THEN <<"-">> \o NatToString(-n) ELSE NatToString(n)

\* The value of the longest prefix of digits of s, read from accumulator acc.
RECURSIVE DigitsValue(_, _)
DigitsValue(s, acc) ==
    IF s = << >> \/ ~IsDigit(Head(s)) THEN acc
    ELSE DigitsValue(Tail(s), acc * 10 + DigitValue(Head(s)))

\* s without its leading white space
RECURSIVE TrimStart(_)
TrimStart(s) ==
    IF s # << >> /\ Head(s) \in {" ", "\n"} THEN TrimStart(Tail(s)) ELSE s

\* parseInt(s): <<n>>, or << >> for NaN
parseInt(s) ==
    LET t == TrimStart(s)
        neg == t # << >> /\ Head(t) = "-"
        u == IF t # << >> /\ Head(t) \in {"-"} THEN Tail(t) ELSE t
    IN  IF u = << >> \/ ~IsDigit(Head(u)) THEN << >>
        ELSE <<(IF neg THEN -1 ELSE 1) * DigitsValue(u, 0)>>

(***************************************************************************)
(* Date helpers (utils)                                                    *)
(***************************************************************************)

monthNames ==
    << <<"J","a","n">>, <<"F","e","v">>, <<"M","a","r">>, <<"A","b","r">>,
       <<"M","a","i">>, <<"J","u","n">>, <<"J","u","l">>, <<"A","g","o">>,
       <<"S","e","t">>, <<"O","u","t">>, <<"N","o","v">>, <<"D","e","z">> >>

Quinzena1 == <<"1","ª"," ","Q","u","i","n","z","e","n","a">>
Quinzena2 == <<"2","ª"," ","Q","u","i","n","z","e","n","a">>

IsLeap(y) == (y % 4 = 0 /\ y % 100 # 0) \/ y % 400 = 0

DaysInMonth(y, m) ==
    IF m = 2 THEN (IF IsLeap(y) THEN 29 ELSE 28)
    ELSE IF m \in {4, 6, 9, 11} THEN 30 ELSE 31

\* new Date(dateStr) for the date-only ISO form YYYY-MM-DD, which is read as
\* midnight UTC: <<year, month (0-based), day>>, or << >> for Invalid Date.
NewDate(dateStr) ==
    IF /\ Len(dateStr) = 10
       /\ dateStr[5] = "-" /\ dateStr[8] = "-"
       /\ \A i \in {1, 2, 3, 4, 6, 7, 9, 10} : IsDigit(dateStr[i])
    THEN LET y == DigitsValue(SubSeq(dateStr, 1, 4), 0)
             m == DigitsValue(SubSeq(dateStr, 6, 7), 0)
             d == DigitsValue(SubSeq(dateStr, 9, 10), 0)
         IN  IF m \in 1..12 /\ d >= 1 /\ d <= DaysInMonth(y, m)
             THEN <<y, m - 1, d>> ELSE << >>
    ELSE << >>

\* the label of an Invalid Date: `${undefined}/${NaN} - 2ª Quinzena`
InvalidFortnight ==
    <<"u","n","d","e","f","i","n","e","d","/","N","a","N"," ","-"," ">> \o Quinzena2

\* getFortnight with the boundary off by one: day < 15
getFortnight_Before15(dateStr) ==
    LET date == NewDate(dateStr)
    IN  IF date = << >> THEN InvalidFortnight
        ELSE monthNames[date[2] + 1] \o <<"/">> \o NumberToString(date[1]) \o <<" ", "-", " ">>
                \o (IF date[3] < 15 THEN Quinzena1 ELSE Quinzena2)

getFortnight(dateStr) ==
    LET date == NewDate(dateStr)
    IN  IF date = << >> THEN InvalidFortnight
        ELSE LET day == date[3]
                 mStr == monthNames[date[2] + 1]
                 yStr == NumberToString(date[1])
                 part == IF day <= 15 THEN Quinzena1 ELSE Quinzena2
             IN  mStr \o <<"/">> \o yStr \o <<" ", "-", " ">> \o part

\* monthMap[mStr], << >> when undefined
monthMap(mStr) ==
    IF \E i \in 1..12 : monthNames[i] = mStr
    THEN <<(CHOOSE i \in 1..12 : monthNames[i] = mStr) - 1>>
    ELSE << >>

\* compareFortnights' inner parse
parse(str) ==
    LET parts == Split(str, <<" ", "-", " ">>)
    IN  IF Len(parts) < 2 THEN [year |-> 0, month |-> 0, q |-> 0]
        ELSE LET datePart == parts[1]
                 qPart == parts[2]
                 dm == Split(datePart, <<"/">>)
                 mStr == dm[1]
                 \* parseInt(undefined) is NaN
                 yNum == IF Len(dm) >= 2 THEN parseInt(dm[2]) ELSE << >>
             IN  [year |-> IF yNum = << >> THEN 0 ELSE yNum[1],
                  month |-> IF monthMap(mStr) # << >> THEN monthMap(mStr)[1] ELSE -1,
                  q |-> IF Includes(qPart, <<"1", "ª">>) THEN 1 ELSE 2]

\* compareFortnights without its last comparison, of the fortnight ordinal
compareFortnights_NoOrdinal(a, b) ==
    LET pa == parse(a)
        pb == parse(b)
    IN  IF pa.year # pb.year THEN pa.year - pb.year ELSE pa.month - pb.month

\* compareFortnights with its operands exchanged
compareFortnights_Swapped(a, b) ==
    LET pa == parse(b)
        pb == parse(a)
    IN  IF pa.year # pb.year THEN pa.year - pb.year
        ELSE IF pa.month # pb.month THEN pa.month - pb.month
        ELSE pa.q - pb.q

compareFortnights(a, b) ==
    LET pa == parse(a)
        pb == parse(b)
    IN  IF pa.year # pb.year THEN pa.year - pb.year
        ELSE IF pa.month # pb.month THEN pa.month - pb.month
        ELSE pa.q - pb.q

\* (a, b) => compareFortnights(b, a), the comparator of the descending sorts
compareFortnightsDesc(a, b) == compareFortnights(b, a)

\* Array.prototype.sort is stable; insertion of x into an already sorted list
RECURSIVE insertFortnight(_, _)
insertFortnight(x, sorted) ==
    IF sorted = << >> THEN <<x>>
    ELSE IF compareFortnightsDesc(x, Head(sorted)) < 0 THEN <<x>> \o sorted
    ELSE <<Head(sorted)>> \o insertFortnight(x, Tail(sorted))

\* labels.sort((a, b) => compareFortnights(b, a))
RECURSIVE sortFortnights(_)
sortFortnights(s) ==
    IF s = << >> THEN << >>
    ELSE insertFortnight(s[Len(s)], sortFortnights(SubSeq(s, 1, Len(s) - 1)))

(***************************************************************************)
(* Types (types.ts)                                                        *)
(*                                                                         *)
(* EggRecord: [id, date, aviary, batchId?, clean, dirty, cracked,          *)
(*   floorEggs?, birds, weight, birdWeight?, mortality, observation?]      *)
(* CharacterizationRecord: [id, date, aviary, batchId, weekAge,            *)
(*   batchWeight, uniformity, feathering]                                  *)
(* ComputedRecord: EggRecord plus totalEggs, percClean, percDirty,         *)
(*   percCracked, percFloorEggs, layingRate, fortnight, month, year.       *)
(* A quotient is kept exact, as [num, den].                                *)
(***************************************************************************)

AviaryA1 == <<"A","v","i","á","r","i","o"," ","1">>
AviaryA2 == <<"A","v","i","á","r","i","o"," ","2">>
AviaryA3 == <<"A","v","i","á","r","i","o"," ","3">>
AviaryA4 == <<"A","v","i","á","r","i","o"," ","4">>
AviaryId == {AviaryA1, AviaryA2, AviaryA3, AviaryA4}

FeatheringBom == <<"B","o","m">>

(***************************************************************************)
(* Computation (utils)                                                     *)
(***************************************************************************)

\* arr.filter(c => c.aviary === aviary)
RECURSIVE filterAviary(_, _)
filterAviary(chars, aviary) ==
    IF chars = << >> THEN << >>
    ELSE (IF Head(chars).aviary = aviary THEN <<Head(chars)>> ELSE << >>)
            \o filterAviary(Tail(chars), aviary)

\* insertion before the elements of an equal date: a sort that is not stable
RECURSIVE insertByDateDesc_BeforeEqual(_, _)
insertByDateDesc_BeforeEqual(x, sorted) ==
    IF sorted = << >> THEN <<x>>
    ELSE IF localeCompare(Head(sorted).date, x.date) <= 0 THEN <<x>> \o sorted
    ELSE <<Head(sorted)>> \o insertByDateDesc_BeforeEqual(x, Tail(sorted))

\* insertion of x into a list sorted by (a, b) => b.date.localeCompare(a.date)
RECURSIVE insertByDateDesc(_, _)
insertByDateDesc(x, sorted) ==
    IF sorted = << >> THEN <<x>>
    ELSE IF localeCompare(Head(sorted).date, x.date) < 0 THEN <<x>> \o sorted
    ELSE <<Head(sorted)>> \o insertByDateDesc(x, Tail(sorted))

\* arr.sort((a, b) => b.date.localeCompare(a.date)): stable, newest first
RECURSIVE sortByDateDesc(_)
sortByDateDesc(s) ==
    IF s = << >> THEN << >>
    ELSE insertByDateDesc(s[Len(s)], sortByDateDesc(SubSeq(s, 1, Len(s) - 1)))

\* sortedChars.find(c => c.date <= date): <<c>>, or << >> when undefined
RECURSIVE findActiveChar(_, _)
findActiveChar(sortedChars, date) ==
    IF sortedChars = << >> THEN << >>
    ELSE IF StrLeq(Head(sortedChars).date, date) THEN <<Head(sortedChars)>>
    ELSE findActiveChar(Tail(sortedChars), date)

\* the batch linking without the fall-back to the stored batchId
resolveBatchId_NoFallback(record, chars) ==
    LET activeChar == findActiveChar(sortByDateDesc(filterAviary(chars, record.aviary)),
                                     record.date)
    IN  IF activeChar # << >> THEN <<activeChar[1].batchId>> ELSE << >>

\* the batch linking taking the oldest qualifying snapshot: no sort before find
resolveBatchId_Unsorted(record, chars) ==
    LET activeChar == findActiveChar(filterAviary(chars, record.aviary), record.date)
    IN  IF activeChar # << >> THEN <<activeChar[1].batchId>> ELSE record.batchId

\* the batch linking of computeRecord
resolveBatchId(record, chars) ==
    IF Len(chars) > 0
    THEN LET aviaryChars == filterAviary(chars, record.aviary)
             sortedChars == sortByDateDesc(aviaryChars)
             activeChar == findActiveChar(sortedChars, record.date)
         IN  IF activeChar # << >> THEN <<activeChar[1].batchId>> ELSE record.batchId
    ELSE record.batchId

\* x / y, or null when the guard fails
Quotient(guard, x, y) == IF guard THEN <<[num |-> x, den |-> y]>> ELSE << >>

\* totalEggs as the sum without the floor eggs
totalEggsOf_NoFloor(record, floorEggs) == record.clean + record.dirty + record.cracked

totalEggsOf(record, floorEggs) == record.clean + record.dirty + record.cracked + floorEggs

computeRecord(record, chars) ==
    LET floorEggs == IF record.floorEggs = << >> \/ record.floorEggs = <<0>>
                     THEN 0 ELSE record.floorEggs[1]
        totalEggs == totalEggsOf(record, floorEggs)
    IN  [ id |-> record.id,
          date |-> record.date,
          aviary |-> record.aviary,
          batchId |-> resolveBatchId(record, chars),
          clean |-> record.clean,
          dirty |-> record.dirty,
          cracked |-> record.cracked,
          floorEggs |-> <<floorEggs>>,
          birds |-> record.birds,
          weight |-> record.weight,
          birdWeight |-> record.birdWeight,
          mortality |-> record.mortality,
          observation |-> record.observation,
          totalEggs |-> totalEggs,
          percClean |-> Quotient(totalEggs > 0, record.clean, totalEggs),
          percDirty |-> Quotient(totalEggs > 0, record.dirty, totalEggs),
          percCracked |-> Quotient(totalEggs > 0, record.cracked, totalEggs),
          percFloorEggs |-> Quotient(totalEggs > 0, floorEggs, totalEggs),
          layingRate |-> Quotient(record.birds > 0, totalEggs, record.birds),
          fortnight |-> getFortnight(record.date),
          month |-> Substring0(record.date, 7),
          year |-> parseInt(Substring0(record.date, 4)) ]

\* the array that sort reorders in place, were it the parameter itself
sortedArray_Parameter == "charRecords"

\* the array that sort reorders in place: the one filter returned
sortedArray == "aviaryChars"

\* the arrays of a call of computeRecord when it returns: the parameter
\* charRecords and the array aviaryChars that filter allocates (empty when
\* the branch is not taken); sort writes into the array it is called on
arraysAfterCompute(record, chars) ==
    IF Len(chars) > 0
    THEN LET arrays == [charRecords |-> chars,
                        aviaryChars |-> filterAviary(chars, record.aviary)]
         IN  [arrays EXCEPT ![sortedArray] = sortByDateDesc(arrays[sortedArray])]
    ELSE [charRecords |-> chars, aviaryChars |-> << >>]

\* the parameter record when computeRecord returns: the result is a new
\* object made by spreading it, nothing is assigned to it
recordAfterCompute(record, chars) == record

(***************************************************************************)
(* The App component: state after construction                             *)
(***************************************************************************)

NoCall == [fn |-> "none"]

\* 'all' as an aviary filter
AllAviaries == <<"a","l","l">>

\* useState<FilterState>({ time: '7d', aviary: 'all' })
initialFilter ==
    [ time |-> "7d", aviary |-> AllAviaries, year |-> << >>, quinzena |-> << >>,
      batchId |-> << >> ]

AppInit ==
    /\ rawRecords = << >>
    /\ charRecords = << >>
    /\ currentView = "dashboard_general"
    /\ editingId = << >>
    /\ deleteId = << >>
    /\ deleteCharId = << >>
    /\ showDeleteAllConfirm = FALSE
    /\ showDeleteAllCharConfirm = FALSE
    /\ filter = initialFilter

\* the first mount, of an installation without stored data, has completed:
\* both save effects have written the empty collections
Mounted ==
    /\ storedRecords = << << >> >>
    /\ storedChars = << << >> >>
    /\ mountStep = "idle"
    /\ loaded = << >>

Init == AppInit /\ Mounted /\ lastCall = NoCall

(***************************************************************************)
(* App: import merge and save handlers                                     *)
(***************************************************************************)

\* `${r.date}|${r.aviary}`
eggKey(r) == r.date \o <<"|">> \o r.aviary

\* `${r.date}|${r.aviary}|${r.batchId}`
charKey(r) == r.date \o <<"|">> \o r.aviary \o <<"|">> \o r.batchId

\* A Map is the sequence of its entries [key, value] in insertion order.
\* The position of key's entry, 0 when the Map has none (Map.has).
mapIndex(entries, key) ==
    IF \E i \in 1..Len(entries) : entries[i].key = key
    THEN CHOOSE i \in 1..Len(entries) : entries[i].key = key
    ELSE 0

\* Map.set: an existing key keeps its place and takes the new value
mapSet(entries, key, value) ==
    IF mapIndex(entries, key) # 0
    THEN [entries EXCEPT ![mapIndex(entries, key)] = [key |-> key, value |-> value]]
    ELSE Append(entries, [key |-> key, value |-> value])

\* Array.from(recordMap.values())
mapValues(entries) == [i \in 1..Len(entries) |-> entries[i].value]

\* prev.forEach(r => recordMap.set(key, r))
RECURSIVE setAllEggs(_, _)
setAllEggs(entries, prev) ==
    IF prev = << >> THEN entries
    ELSE setAllEggs(mapSet(entries, eggKey(Head(prev)), Head(prev)), Tail(prev))

\* the imported record stored under its own id, also when its key exists
mergedEgg_OwnId(entries, importedRec) == importedRec

\* { ...importedRec, id: existing.id } when the key exists, else importedRec
mergedEgg(entries, importedRec) ==
    IF mapIndex(entries, eggKey(importedRec)) # 0
    THEN [importedRec EXCEPT
            !.id = entries[mapIndex(entries, eggKey(importedRec))].value.id]
    ELSE importedRec

\* the import keeping the first imported record of a key instead of the last
RECURSIVE mergeAllEggs_FirstWins(_, _)
mergeAllEggs_FirstWins(entries, newRecords) ==
    IF newRecords = << >> THEN entries
    ELSE mergeAllEggs_FirstWins(
            mapSet(entries, eggKey(newRecords[Len(newRecords)]),
                   mergedEgg(entries, newRecords[Len(newRecords)])),
            SubSeq(newRecords, 1, Len(newRecords) - 1))

\* newRecords.forEach(importedRec => ...)
RECURSIVE mergeAllEggs(_, _)
mergeAllEggs(entries, newRecords) ==
    IF newRecords = << >> THEN entries
    ELSE mergeAllEggs(
            mapSet(entries, eggKey(Head(newRecords)), mergedEgg(entries, Head(newRecords))),
            Tail(newRecords))

\* the updater handleImportRecords passes to setRawRecords
\* an import that appends the rows to the collection
importEggRecords_Append(prev, newRecords) == prev \o newRecords

importEggRecords(prev, newRecords) ==
    mapValues(mergeAllEggs(setAllEggs(<< >>, prev), newRecords))

RECURSIVE setAllChars(_, _)
setAllChars(entries, prev) ==
    IF prev = << >> THEN entries
    ELSE setAllChars(mapSet(entries, charKey(Head(prev)), Head(prev)), Tail(prev))

mergedChar(entries, importedRec) ==
    IF mapIndex(entries, charKey(importedRec)) # 0
    THEN [importedRec EXCEPT
            !.id = entries[mapIndex(entries, charKey(importedRec))].value.id]
    ELSE importedRec

RECURSIVE mergeAllChars(_, _)
mergeAllChars(entries, newRecords) ==
    IF newRecords = << >> THEN entries
    ELSE mergeAllChars(
            mapSet(entries, charKey(Head(newRecords)), mergedChar(entries, Head(newRecords))),
            Tail(newRecords))

\* the updater handleImportCharRecords passes to setCharRecords
importCharRecords(prev, newRecords) ==
    mapValues(mergeAllChars(setAllChars(<< >>, prev), newRecords))

\* prev.map(r => r.id === record.id ? record : r)
replaceById(prev, record) ==
    [i \in 1..Len(prev) |-> IF prev[i].id = record.id THEN record ELSE prev[i]]

\* editingId is null or '' : falsy
Truthy(optString) == optString # << >> /\ optString # << << >> >>

MaxRecords == 3

\* the bound of the model: both collections together hold at most MaxRecords
Fits(raw, chars) == Len(raw) + Len(chars) <= MaxRecords

handleSaveRecord(record) ==
    /\ IF Truthy(editingId)
       THEN /\ rawRecords' = replaceById(rawRecords, record)
            /\ editingId' = << >>
       ELSE /\ rawRecords' = Append(rawRecords, record)
            /\ UNCHANGED editingId
    /\ Fits(rawRecords', charRecords)
    /\ currentView' = "list"
    /\ storedRecords' = <<rawRecords'>>
    /\ lastCall' = [fn |-> "handleSaveRecord", args |-> <<record>>]
    /\ UNCHANGED <<charRecords, deleteId, deleteCharId, showDeleteAllConfirm,
                   showDeleteAllCharConfirm, filter, storedChars, mountVars>>

handleImportRecords(newRecords) ==
    /\ rawRecords' = importEggRecords(rawRecords, newRecords)
    /\ Fits(rawRecords', charRecords)
    /\ storedRecords' = <<rawRecords'>>
    /\ lastCall' = [fn |-> "handleImportRecords", args |-> <<newRecords>>]
    /\ UNCHANGED <<charRecords, uiVars, storedChars, mountVars>>

handleSaveChar(record) ==
    /\ IF Truthy(editingId)
       THEN /\ charRecords' = replaceById(charRecords, record)
            /\ editingId' = << >>
       ELSE /\ charRecords' = Append(charRecords, record)
            /\ UNCHANGED editingId
    /\ Fits(rawRecords, charRecords')
    /\ currentView' = "characterization_list"
    /\ storedChars' = <<charRecords'>>
    /\ lastCall' = [fn |-> "handleSaveChar", args |-> <<record>>]
    /\ UNCHANGED <<rawRecords, deleteId, deleteCharId, showDeleteAllConfirm,
                   showDeleteAllCharConfirm, filter, storedRecords, mountVars>>

handleImportCharRecords(newRecords) ==
    /\ charRecords' = importCharRecords(charRecords, newRecords)
    /\ Fits(rawRecords, charRecords')
    /\ storedChars' = <<charRecords'>>
    /\ lastCall' = [fn |-> "handleImportCharRecords", args |-> <<newRecords>>]
    /\ UNCHANGED <<rawRecords, uiVars, storedRecords, mountVars>>

\* prev.filter(r => r.id !== id)
RECURSIVE withoutId(_, _)
withoutId(prev, id) ==
    IF prev = << >> THEN << >>
    ELSE (IF Head(prev).id # id THEN <<Head(prev)>> ELSE << >>) \o withoutId(Tail(prev), id)

\* a delete button that removes the record at once
handleDeleteRequest_Immediate(id) ==
    /\ deleteId' = << >>
    /\ rawRecords' = withoutId(rawRecords, id)
    /\ storedRecords' = <<rawRecords'>>
    /\ lastCall' = [fn |-> "handleDeleteRequest", args |-> <<id>>]
    /\ UNCHANGED <<charRecords, currentView, editingId, deleteCharId, showDeleteAllConfirm,
                   showDeleteAllCharConfirm, filter, storedChars, mountVars>>

handleDeleteRequest(id) ==
    /\ deleteId' = <<id>>
    /\ lastCall' = [fn |-> "handleDeleteRequest", args |-> <<id>>]
    /\ UNCHANGED <<dataVars, currentView, editingId, deleteCharId, showDeleteAllConfirm,
                   showDeleteAllCharConfirm, filter, storageVars, mountVars>>

confirmDelete ==
    /\ IF Truthy(deleteId)
       THEN /\ rawRecords' = withoutId(rawRecords, deleteId[1])
            /\ deleteId' = << >>
            /\ storedRecords' = <<rawRecords'>>
       ELSE UNCHANGED <<rawRecords, deleteId, storedRecords>>
    /\ lastCall' = [fn |-> "confirmDelete", args |-> deleteId]
    /\ UNCHANGED <<charRecords, currentView, editingId, deleteCharId, showDeleteAllConfirm,
                   showDeleteAllCharConfirm, filter, storedChars, mountVars>>

cancelDelete ==
    /\ deleteId' = << >>
    /\ lastCall' = [fn |-> "cancelDelete", args |-> << >>]
    /\ UNCHANGED <<dataVars, currentView, editingId, deleteCharId, showDeleteAllConfirm,
                   showDeleteAllCharConfirm, filter, storageVars, mountVars>>

handleDeleteAllRequest ==
    /\ showDeleteAllConfirm' = TRUE
    /\ lastCall' = [fn |-> "handleDeleteAllRequest", args |-> << >>]
    /\ UNCHANGED <<dataVars, currentView, editingId, deleteId, deleteCharId,
                   showDeleteAllCharConfirm, filter, storageVars, mountVars>>

confirmDeleteAll ==
    /\ rawRecords' = << >>
    /\ showDeleteAllConfirm' = FALSE
    /\ storedRecords' = <<rawRecords'>>
    /\ lastCall' = [fn |-> "confirmDeleteAll", args |-> << >>]
    /\ UNCHANGED <<charRecords, currentView, editingId, deleteId, deleteCharId,
                   showDeleteAllCharConfirm, filter, storedChars, mountVars>>

\* onCancel={() => setShowDeleteAllConfirm(false)}
cancelDeleteAll ==
    /\ showDeleteAllConfirm' = FALSE
    /\ lastCall' = [fn |-> "cancelDeleteAll", args |-> << >>]
    /\ UNCHANGED <<dataVars, currentView, editingId, deleteId, deleteCharId,
                   showDeleteAllCharConfirm, filter, storageVars, mountVars>>

\* a handler that sets editingId and currentView only
setEditingAndView(fn, args, id, view) ==
    /\ editingId' = id
    /\ currentView' = view
    /\ lastCall' = [fn |-> fn, args |-> args]
    /\ UNCHANGED <<dataVars, deleteId, deleteCharId, showDeleteAllConfirm,
                   showDeleteAllCharConfirm, filter, storageVars, mountVars>>

\* handleCancelForm leaving the pending edit in place
handleCancelForm_KeepEdit ==
    setEditingAndView("handleCancelForm", << >>, editingId, "list")

handleEditRequest(id) == setEditingAndView("handleEditRequest", <<id>>, <<id>>, "form")

handleCancelForm == setEditingAndView("handleCancelForm", << >>, << >>, "list")

handleEditCharRequest(id) ==
    setEditingAndView("handleEditCharRequest", <<id>>, <<id>>, "characterization_form")

handleCancelCharForm ==
    setEditingAndView("handleCancelCharForm", << >>, << >>, "characterization_list")

\* CharacterizationList onAdd
onAdd == setEditingAndView("onAdd", << >>, << >>, "characterization_form")

\* Layout setView: (v) => { setCurrentView(v); setEditingId(null); }
setView(v) == setEditingAndView("setView", <<v>>, << >>, v)

handleDeleteCharRequest(id) ==
    /\ deleteCharId' = <<id>>
    /\ lastCall' = [fn |-> "handleDeleteCharRequest", args |-> <<id>>]
    /\ UNCHANGED <<dataVars, currentView, editingId, deleteId, showDeleteAllConfirm,
                   showDeleteAllCharConfirm, filter, storageVars, mountVars>>

confirmDeleteChar ==
    /\ IF Truthy(deleteCharId)
       THEN /\ charRecords' = withoutId(charRecords, deleteCharId[1])
            /\ deleteCharId' = << >>
            /\ storedChars' = <<charRecords'>>
       ELSE UNCHANGED <<charRecords, deleteCharId, storedChars>>
    /\ lastCall' = [fn |-> "confirmDeleteChar", args |-> deleteCharId]
    /\ UNCHANGED <<rawRecords, currentView, editingId, deleteId, showDeleteAllConfirm,
                   showDeleteAllCharConfirm, filter, storedRecords, mountVars>>

\* onCancel={() => setDeleteCharId(null)}
cancelDeleteChar ==
    /\ deleteCharId' = << >>
    /\ lastCall' = [fn |-> "cancelDeleteChar", args |-> << >>]
    /\ UNCHANGED <<dataVars, currentView, editingId, deleteId, showDeleteAllConfirm,
                   showDeleteAllCharConfirm, filter, storageVars, mountVars>>

handleDeleteAllCharRequest ==
    /\ showDeleteAllCharConfirm' = TRUE
    /\ lastCall' = [fn |-> "handleDeleteAllCharRequest", args |-> << >>]
    /\ UNCHANGED <<dataVars, currentView, editingId, deleteId, deleteCharId,
                   showDeleteAllConfirm, filter, storageVars, mountVars>>

confirmDeleteAllChar ==
    /\ charRecords' = << >>
    /\ showDeleteAllCharConfirm' = FALSE
    /\ storedChars' = <<charRecords'>>
    /\ lastCall' = [fn |-> "confirmDeleteAllChar", args |-> << >>]
    /\ UNCHANGED <<rawRecords, currentView, editingId, deleteId, deleteCharId,
                   showDeleteAllConfirm, filter, storedRecords, mountVars>>

\* onCancel={() => setShowDeleteAllCharConfirm(false)}
cancelDeleteAllChar ==
    /\ showDeleteAllCharConfirm' = FALSE
    /\ lastCall' = [fn |-> "cancelDeleteAllChar", args |-> << >>]
    /\ UNCHANGED <<dataVars, currentView, editingId, deleteId, deleteCharId,
                   showDeleteAllConfirm, filter, storageVars, mountVars>>

\* the first record of the id, << >> when there is none (find(...) || null)
findById(records, id) ==
    IF \E i \in 1..Len(records) : records[i].id = id
    THEN <<records[CHOOSE i \in 1..Len(records) :
                      /\ records[i].id = id
                      /\ \A j \in 1..(i - 1) : records[j].id # id]>>
    ELSE << >>

\* recordToEdit: the initialData of RecordForm
recordToEdit ==
    IF ~Truthy(editingId) THEN << >>
    ELSE IF currentView = "form" THEN findById(rawRecords, editingId[1])
    ELSE << >>

\* charRecordToEdit: the initialData of CharacterizationForm
charRecordToEdit ==
    IF ~Truthy(editingId) THEN << >>
    ELSE IF currentView = "characterization_form" THEN findById(charRecords, editingId[1])
    ELSE << >>

(***************************************************************************)
(* App: the effects of the mount, in the order React runs them             *)
(***************************************************************************)

\* data ? JSON.parse(data) : []
loadRecords == IF storedRecords = << >> THEN << >> ELSE storedRecords[1]

loadCharRecords == IF storedChars = << >> THEN << >> ELSE storedChars[1]

\* useEffect(..., []): reads both collections and queues the two state updates
loadEffect ==
    /\ mountStep = "load"
    /\ loaded' = <<loadRecords, loadCharRecords>>
    /\ mountStep' = "save"
    /\ lastCall' = [fn |-> "loadRecords", args |-> << >>]
    /\ UNCHANGED <<dataVars, uiVars, storageVars>>

\* useEffect(() => saveRecords(rawRecords), [rawRecords]): runs after the first
\* render with the state of that render, and again after the render of the load
saveRecordsEffect ==
    /\ mountStep \in {"save", "saveAgain"}
    /\ storedRecords' = <<rawRecords>>
    /\ mountStep' = IF mountStep = "save" THEN "saveChar" ELSE "saveCharAgain"
    /\ lastCall' = [fn |-> "saveRecords", args |-> <<rawRecords>>]
    /\ UNCHANGED <<dataVars, uiVars, storedChars, loaded>>

\* useEffect(() => saveCharRecords(charRecords), [charRecords])
saveCharRecordsEffect ==
    /\ mountStep \in {"saveChar", "saveCharAgain"}
    /\ storedChars' = <<charRecords>>
    /\ mountStep' = IF mountStep = "saveChar" THEN "render" ELSE "idle"
    /\ lastCall' = [fn |-> "saveCharRecords", args |-> <<charRecords>>]
    /\ UNCHANGED <<dataVars, uiVars, storedRecords, loaded>>

\* the render that applies setRawRecords(loaded) and setCharRecords(loadedChar)
renderLoaded ==
    /\ mountStep = "render"
    /\ rawRecords' = loaded[1]
    /\ charRecords' = loaded[2]
    /\ mountStep' = "saveAgain"
    /\ lastCall' = [fn |-> "render", args |-> << >>]
    /\ UNCHANGED <<uiVars, storageVars, loaded>>

(***************************************************************************)
(* RecordForm and CharacterizationForm: what a submit hands to onSave      *)
(***************************************************************************)

\* charRecords.filter(c => c.aviary === aviary && c.date <= date)
RECURSIVE filterActive(_, _, _)
filterActive(chars, aviary, date) ==
    IF chars = << >> THEN << >>
    ELSE (IF Head(chars).aviary = aviary /\ StrLeq(Head(chars).date, date)
          THEN <<Head(chars)>> ELSE << >>) \o filterActive(Tail(chars), aviary, date)

\* an auto-detect that reads the oldest qualifying snapshot
autoDetectBatch_Oldest(chars, aviary, date) ==
    LET sorted == sortByDateDesc(filterActive(chars, aviary, date))
    IN  IF sorted # << >> /\ sorted[Len(sorted)].batchId # << >>
        THEN sorted[Len(sorted)].batchId ELSE << >>

\* the batch the form's auto-detect effect puts in formData.batchId
autoDetectBatch(chars, aviary, date) ==
    LET sorted == sortByDateDesc(filterActive(chars, aviary, date))
    IN  IF sorted # << >> /\ sorted[1].batchId # << >> THEN sorted[1].batchId ELSE << >>

isCageFree(aviary) == aviary = AviaryA2 \/ aviary = AviaryA4

\* RecordForm.validate
validateRecordForm(formData) ==
    /\ formData.date # << >>
    /\ formData.batchId # << >>
    /\ formData.birds > 0
    /\ IF formData.weight # << >> THEN formData.weight[1] >= 0 ELSE TRUE
    /\ IF formData.birdWeight # << >> THEN formData.birdWeight[1] >= 0 ELSE TRUE
    /\ formData.clean >= 0
    /\ formData.dirty >= 0
    /\ formData.cracked >= 0
    /\ ~(isCageFree(formData.aviary) /\ formData.floorEggs < 0)
    /\ formData.mortality >= 0

\* the record RecordForm.handleSubmit passes to onSave
submittedRecord(id, formData) ==
    [ id |-> id, date |-> formData.date, aviary |-> formData.aviary,
      batchId |-> <<formData.batchId>>,
      clean |-> formData.clean, dirty |-> formData.dirty, cracked |-> formData.cracked,
      floorEggs |-> IF isCageFree(formData.aviary) THEN <<formData.floorEggs>> ELSE <<0>>,
      birds |-> formData.birds, weight |-> formData.weight,
      birdWeight |-> formData.birdWeight, mortality |-> formData.mortality,
      observation |-> <<formData.observation>> ]

\* CharacterizationForm.validate (batchId.trim() is not empty)
validateCharForm(formData) ==
    /\ formData.date # << >>
    /\ \E i \in 1..Len(formData.batchId) : formData.batchId[i] \notin {" ", "\n"}
    /\ formData.weekAge > 0
    /\ formData.batchWeight > 0
    /\ formData.uniformity >= 0 /\ formData.uniformity <= 100

\* generateUUID: an identifier no record of either collection carries
Uuids == { <<"u","u","i","d","-","1">>, <<"u","u","i","d","-","2">> }

IdsInUse == {rawRecords[i].id : i \in 1..Len(rawRecords)}
                \cup {charRecords[i].id : i \in 1..Len(charRecords)}

(***************************************************************************)
(* CSV export and import of production records (utils)                     *)
(***************************************************************************)

WhiteSpace == {" ", "\n"}

RECURSIVE TrimEnd(_)
TrimEnd(s) ==
    IF s # << >> /\ s[Len(s)] \in WhiteSpace THEN TrimEnd(SubSeq(s, 1, Len(s) - 1)) ELSE s

\* s.trim()
Trim(s) == TrimEnd(TrimStart(s))

\* s.replace(pat, rep) with a string pattern: the first occurrence only
ReplaceFirst(s, pat, rep) ==
    LET i == IndexOfFrom(s, pat, 1)
    IN  IF i = 0 THEN s
        ELSE SubSeq(s, 1, i - 1) \o rep \o SubSeq(s, i + Len(pat), Len(s))

\* s.replace(/pat/g, rep) for a literal pattern
RECURSIVE ReplaceAll(_, _, _)
ReplaceAll(s, pat, rep) ==
    LET i == IndexOfFrom(s, pat, 1)
    IN  IF i = 0 THEN s
        ELSE SubSeq(s, 1, i - 1) \o rep
                \o ReplaceAll(SubSeq(s, i + Len(pat), Len(s)), pat, rep)

\* s.replace(/^"|"$/g, '')
StripEdgeQuotes(s) ==
    LET t == IF s # << >> /\ Head(s) = "\"" THEN Tail(s) ELSE s
    IN  IF t # << >> /\ t[Len(t)] = "\"" THEN SubSeq(t, 1, Len(t) - 1) ELSE t

\* parts.join(sep)
RECURSIVE Join(_, _)
Join(parts, sep) ==
    IF parts = << >> THEN << >>
    ELSE IF Len(parts) = 1 THEN parts[1]
    ELSE parts[1] \o sep \o Join(Tail(parts), sep)

UpperCase ==
    << "A", "B", "C", "D", "E", "F", "G", "H", "I", "J", "K", "L", "M",
       "N", "O", "P", "Q", "R", "S", "T", "U", "V", "W", "X", "Y", "Z",
       "Á", "Ã", "Ç", "É" >>
LowerCase ==
    << "a", "b", "c", "d", "e", "f", "g", "h", "i", "j", "k", "l", "m",
       "n", "o", "p", "q", "r", "s", "t", "u", "v", "w", "x", "y", "z",
       "á", "ã", "ç", "é" >>

\* s.toUpperCase()
ToUpperCase(s) ==
    [i \in 1..Len(s) |->
        IF \E k \in 1..Len(LowerCase) : LowerCase[k] = s[i]
        THEN UpperCase[CHOOSE k \in 1..Len(LowerCase) : LowerCase[k] = s[i]]
        ELSE s[i]]

\* s.toLowerCase()
ToLowerCase(s) ==
    [i \in 1..Len(s) |->
        IF \E k \in 1..Len(UpperCase) : UpperCase[k] = s[i]
        THEN LowerCase[CHOOSE k \in 1..Len(UpperCase) : UpperCase[k] = s[i]]
        ELSE s[i]]

\* parseFloat(s) of text without a fraction or an exponent: <<n>>, or << >> for NaN
parseFloat(s) == parseInt(s)

\* the value a failed parseFloat puts in a numeric field
NaN == -2147483647

\* the current date
getTodayStr == <<"2", "0", "2", "4", "-", "0", "3", "-", "2", "0">>

\* the i-th part of a destructured split, "undefined" in a template when missing
PartOrUndefined(parts, i) ==
    IF i <= Len(parts) THEN parts[i] ELSE <<"u", "n", "d", "e", "f", "i", "n", "e", "d">>

\* the display form with the month before the day
formatDateBr_MonthFirst(dateStr) ==
    IF dateStr = << >> THEN << >>
    ELSE LET parts == Split(dateStr, <<"-">>)
         IN  PartOrUndefined(parts, 2) \o <<"/">> \o PartOrUndefined(parts, 3)
                \o <<"/">> \o PartOrUndefined(parts, 1)

formatDateBr(dateStr) ==
    IF dateStr = << >> THEN << >>
    ELSE LET parts == Split(dateStr, <<"-">>)
         IN  PartOrUndefined(parts, 3) \o <<"/">> \o PartOrUndefined(parts, 2)
                \o <<"/">> \o PartOrUndefined(parts, 1)

\* the value that stands for the TypeError of a call on a missing date part
TypeError == <<"TypeError">>

\* dateBr is << >> for undefined, <<s>> for the string s
parseDateFromBr(dateBr) ==
    IF dateBr = << >> \/ dateBr = << << >> >> THEN getTodayStr
    ELSE IF Includes(dateBr[1], <<"/">>)
         THEN LET parts == Split(dateBr[1], <<"/">>)
              IN  IF Len(parts) < 3 THEN TypeError
                  ELSE LET day == PadStart2(parts[1])
                           month == PadStart2(parts[2])
                           year == IF Len(parts[3]) = 2 THEN <<"2", "0">> \o parts[3]
                                   ELSE parts[3]
                       IN  year \o <<"-">> \o month \o <<"-">> \o day
         ELSE dateBr[1]

\* the next character of line that the loop of splitCSVLine does not append
\* to the current cell: a quote, or a delimiter outside quotes (0 when none)
nextSpecial(line, delimiter, inQuote) ==
    IF \E i \in 1..Len(line) : line[i] = "\"" \/ (line[i] = delimiter /\ ~inQuote)
    THEN CHOOSE i \in 1..Len(line) :
            /\ line[i] = "\"" \/ (line[i] = delimiter /\ ~inQuote)
            /\ \A j \in 1..(i - 1) : ~(line[j] = "\"" \/ (line[j] = delimiter /\ ~inQuote))
    ELSE 0

\* the loop of splitCSVLine over the characters left in line: the characters
\* before the next quote or separating delimiter are appended to the current
\* cell; a quote flips inQuote and is dropped, a delimiter ends the cell
RECURSIVE scanCSVLine(_, _, _, _, _)
scanCSVLine(line, delimiter, current, inQuote, res) ==
    LET p == nextSpecial(line, delimiter, inQuote)
    IN  IF p = 0 THEN Append(res, current \o line)
        ELSE IF line[p] = "\""
             THEN scanCSVLine(SubSeq(line, p + 1, Len(line)), delimiter,
                              current \o SubSeq(line, 1, p - 1), ~inQuote, res)
        ELSE scanCSVLine(SubSeq(line, p + 1, Len(line)), delimiter, << >>, inQuote,
                         Append(res, current \o SubSeq(line, 1, p - 1)))

\* c.trim().replace(/^"|"$/g, '').replace(/""/g, '"')
cleanCell(c) == ReplaceAll(StripEdgeQuotes(Trim(c)), <<"\"", "\"">>, <<"\"">>)

splitCSVLine(line, delimiter) ==
    LET res == scanCSVLine(line, delimiter, << >>, FALSE, << >>)
    IN  [i \in 1..Len(res) |-> cleanCell(res[i])]

csvHeaders ==
    << <<"I", "D">>,
       <<"D", "a", "t", "a">>,
       <<"A", "v", "i", "á", "r", "i", "o">>,
       <<"L", "o", "t", "e">>,
       <<"O", "v", "o", "s", " ", "L", "i", "m", "p", "o", "s">>,
       <<"O", "v", "o", "s", " ", "S", "u", "j", "o", "s">>,
       <<"O", "v", "o", "s", " ", "T", "r", "i", "n", "c", "a", "d", "o", "s">>,
       <<"O", "v", "o", "s", " ", "d", "e", " ", "C", "a", "m", "a">>,
       <<"A", "v", "e", "s", " ", "V", "i", "v", "a", "s">>,
       <<"P", "e", "s", "o", " ", "O", "v", "o", "s", " ", "(", "g", ")">>,
       <<"P", "e", "s", "o", " ", "A", "v", "e", "s", " ", "(", "g", ")">>,
       <<"M", "o", "r", "t", "a", "l", "i", "d", "a", "d", "e">>,
       <<"O", "b", "s", "e", "r", "v", "a", "ç", "ã", "o">> >>

DataUriHeader == <<"d", "a", "t", "a", ":", "t", "e", "x", "t", "/", "c", "s", "v", ";", "c", "h", "a", "r", "s", "e", "t", "=", "u", "t", "f", "-", "8", ",">>

\* x || "" for an optional string
OrEmpty(opt) == IF opt = << >> THEN << >> ELSE opt[1]

\* x || 0 for an optional number
OrZero(opt) == IF opt = << >> THEN 0 ELSE opt[1]

\* w ? w.toString().replace('.', ',') : ""
weightCell(w) ==
    IF w # << >> /\ w[1] # 0 /\ w[1] # NaN
    THEN ReplaceFirst(NumberToString(w[1]), <<".">>, <<",">>)
    ELSE << >>

\* o ? `"${o.replace(/"/g, '""')}"` : ""
observationCell(o) ==
    IF OrEmpty(o) # << >>
    THEN <<"\"">> \o ReplaceAll(o[1], <<"\"">>, <<"\"", "\"">>) \o <<"\"">>
    ELSE << >>

exportRow(r) ==
    << r.id, formatDateBr(r.date), r.aviary, OrEmpty(r.batchId),
       NumberToString(r.clean), NumberToString(r.dirty), NumberToString(r.cracked),
       NumberToString(OrZero(r.floorEggs)), NumberToString(r.birds),
       weightCell(r.weight), weightCell(r.birdWeight),
       NumberToString(r.mortality), observationCell(r.observation) >>

\* csvContent, the text exportToCSV puts in the link
exportToCSV(records) ==
    DataUriHeader \o Join(csvHeaders, <<";">>) \o <<"\n">>
        \o Join([i \in 1..Len(records) |-> Join(exportRow(records[i]), <<";">>)], <<"\n">>)

\* the text of the file the link downloads: the data of the data URL
downloadedText(csvContent) == SubSeq(csvContent, Len(DataUriHeader) + 1, Len(csvContent))

\* the byte order mark, one character of the text
BOM == "BOM"

NotBlank(line) == Trim(line) # << >>

\* csvText.split(/\r\n|\n/).filter(line => line.trim() !== ''), for text
\* whose line ends are "\n"
csvLines(csvText) == SelectSeq(Split(csvText, <<"\n">>), NotBlank)

\* the least member of a set of positions, 0 (not found) when it is empty
FirstOf(positions) ==
    IF positions = {} THEN 0 ELSE CHOOSE i \in positions : \A j \in positions : i <= j

\* headers.indexOf(name) as a position, 0 when absent
indexOf(headers, name) == FirstOf({i \in 1..Len(headers) : headers[i] = name})

\* headers.findIndex(h => h.includes(a))
findIndex(headers, a) == FirstOf({i \in 1..Len(headers) : Includes(headers[i], a)})

\* headers.findIndex(h => h.includes(a) || h.includes(b))
findIndexEither(headers, a, b) ==
    FirstOf({i \in 1..Len(headers) : Includes(headers[i], a) \/ Includes(headers[i], b)})

\* headers.findIndex(h => h.includes(a) && h.includes(b))
findIndexBoth(headers, a, b) ==
    FirstOf({i \in 1..Len(headers) : Includes(headers[i], a) /\ Includes(headers[i], b)})

\* the column positions parseCSV reads, 0 for a column the header lacks
columnIndexes(headers) ==
    [ idxId |-> indexOf(headers, <<"i", "d">>),
      idxDate |-> indexOf(headers, <<"d", "a", "t", "a">>),
      idxAviary |-> findIndexEither(headers, <<"a", "v", "i", "á", "r", "i", "o">>, <<"a", "v", "i", "a", "r", "i", "o">>),
      idxBatch |-> findIndex(headers, <<"l", "o", "t", "e">>),
      idxClean |-> findIndex(headers, <<"l", "i", "m", "p", "o", "s">>),
      idxDirty |-> findIndex(headers, <<"s", "u", "j", "o", "s">>),
      idxCracked |-> findIndex(headers, <<"t", "r", "i", "n", "c", "a", "d", "o", "s">>),
      idxFloor |-> findIndex(headers, <<"c", "a", "m", "a">>),
      idxBirds |-> findIndexBoth(headers, <<"a", "v", "e", "s">>, <<"v", "i", "v", "a", "s">>),
      idxWeight |-> findIndexBoth(headers, <<"p", "e", "s", "o">>, <<"o", "v", "o", "s">>),
      idxBirdWeight |-> findIndexBoth(headers, <<"p", "e", "s", "o">>, <<"a", "v", "e", "s">>),
      idxMortality |-> findIndexEither(headers, <<"m", "o", "r", "t">>, <<"m", "o", "r", "t", "a", "l", "i", "d", "a", "d", "e">>),
      idxObs |-> findIndexEither(headers, <<"o", "b", "s">>, <<"o", "b", "s", "e", "r", "v", "a", "ç", "ã", "o">>) ]

\* cols[idx]: << >> for undefined, <<s>> for the cell s
Col(cols, idx) == IF idx >= 1 /\ idx <= Len(cols) THEN <<cols[idx]>> ELSE << >>

\* parseCSV's parseNum, val << >> for undefined
parseNum(val) ==
    IF OrEmpty(val) = << >> THEN 0
    ELSE IF Trim(val[1]) = << >> THEN 0
    ELSE LET n == parseFloat(ReplaceFirst(Trim(val[1]), <<",">>, <<".">>))
         IN  IF n = << >> THEN NaN ELSE n[1]

\* parseCSV's parseNumNullable: << >> for null
parseNumNullable(val) ==
    IF OrEmpty(val) = << >> \/ Trim(OrEmpty(val)) = << >> THEN << >> ELSE <<parseNum(val)>>

\* the aviary a cell names
parseAviary(aviaryStr) ==
    IF Includes(aviaryStr, <<"1">>) THEN AviaryA1
    ELSE IF Includes(aviaryStr, <<"2">>) THEN AviaryA2
    ELSE IF Includes(aviaryStr, <<"3">>) THEN AviaryA3
    ELSE IF Includes(aviaryStr, <<"4">>) THEN AviaryA4
    ELSE AviaryA1

\* the record parseCSV builds from the cells of a body line; uuid is what
\* generateUUID returns if it is called
parseRecord(cols, idx, uuid) ==
    [ id |-> IF idx.idxId > 0 /\ OrEmpty(Col(cols, idx.idxId)) # << >>
                  /\ Len(OrEmpty(Col(cols, idx.idxId))) > 5
             THEN cols[idx.idxId] ELSE uuid,
      date |-> parseDateFromBr(Col(cols, idx.idxDate)),
      aviary |-> parseAviary(IF OrEmpty(Col(cols, idx.idxAviary)) # << >>
                             THEN cols[idx.idxAviary] ELSE AviaryA1),
      batchId |-> IF idx.idxBatch > 0 THEN Col(cols, idx.idxBatch) ELSE << >>,
      clean |-> IF idx.idxClean > 0 THEN parseNum(Col(cols, idx.idxClean)) ELSE 0,
      dirty |-> IF idx.idxDirty > 0 THEN parseNum(Col(cols, idx.idxDirty)) ELSE 0,
      cracked |-> IF idx.idxCracked > 0 THEN parseNum(Col(cols, idx.idxCracked)) ELSE 0,
      floorEggs |-> IF idx.idxFloor > 0 THEN <<parseNum(Col(cols, idx.idxFloor))>> ELSE <<0>>,
      birds |-> IF idx.idxBirds > 0 THEN parseNum(Col(cols, idx.idxBirds)) ELSE 0,
      weight |-> IF idx.idxWeight > 0 THEN parseNumNullable(Col(cols, idx.idxWeight))
                 ELSE << >>,
      birdWeight |-> IF idx.idxBirdWeight > 0
                     THEN parseNumNullable(Col(cols, idx.idxBirdWeight)) ELSE << >>,
      mortality |-> IF idx.idxMortality > 0 THEN parseNum(Col(cols, idx.idxMortality)) ELSE 0,
      observation |-> IF idx.idxObs > 0 THEN Col(cols, idx.idxObs) ELSE << >> ]

\* if (!record.date && record.clean === 0 && record.birds === 0) continue
discarded(record) == record.date = << >> /\ record.clean = 0 /\ record.birds = 0

\* the loop of parseCSV from line i on; uuids[i] is the identifier
\* generateUUID returns for line i
RECURSIVE parseLines(_, _, _, _, _)
parseLines(lines, i, delimiter, idx, uuids) ==
    IF i > Len(lines) THEN << >>
    ELSE LET cols == splitCSVLine(lines[i], delimiter)
             record == parseRecord(cols, idx, uuids[i])
         IN  (IF Len(cols) < 3 \/ discarded(record) THEN << >> ELSE <<record>>)
                \o parseLines(lines, i + 1, delimiter, idx, uuids)

\* the header line without a leading byte order mark
firstLineOf(lines) ==
    IF lines[1] # << >> /\ Head(lines[1]) = BOM THEN Tail(lines[1]) ELSE lines[1]

delimiterOf(firstLine) == IF Includes(firstLine, <<";">>) THEN ";" ELSE ","

\* splitCSVLine(firstLine, delimiter).map(h => h.toLowerCase().trim().replace(/"/g, ''))
headersOf(firstLine) ==
    LET cells == splitCSVLine(firstLine, delimiterOf(firstLine))
    IN  [i \in 1..Len(cells) |-> ReplaceAll(Trim(ToLowerCase(cells[i])), <<"\"">>, << >>)]

\* the records parseCSV returns when no line raises
parseCSV(csvText, uuids) ==
    LET lines == csvLines(csvText)
    IN  IF Len(lines) < 2 THEN << >>
        ELSE parseLines(lines, 2, delimiterOf(firstLineOf(lines)),
                        columnIndexes(headersOf(firstLineOf(lines))), uuids)

\* parseCSV raises: a body line of at least three cells has a date cell with
\* one or two parts around "/"
parseCSVThrows(csvText) ==
    LET lines == csvLines(csvText)
    IN  /\ Len(lines) >= 2
        /\ \E i \in 2..Len(lines) :
              LET cols == splitCSVLine(lines[i], delimiterOf(firstLineOf(lines)))
                  idx == columnIndexes(headersOf(firstLineOf(lines)))
              IN  /\ Len(cols) >= 3
                  /\ parseDateFromBr(Col(cols, idx.idxDate)) = TypeError

(***************************************************************************)
(* CSV import of characterization records (utils)                          *)
(***************************************************************************)

FeatheringMuitoBom == <<"M", "u", "i", "t", "o", " ", "B", "o", "m">>
FeatheringRegular == <<"R", "e", "g", "u", "l", "a", "r">>
FeatheringRuim == <<"R", "u", "i", "m">>
FeatheringPessimo == <<"P", "é", "s", "s", "i", "m", "o">>

\* the feathering with "BOM" tested before "MUITO BOM"
featheringOf_BomFirst(featheringStr) ==
    LET fUpper == ToUpperCase(featheringStr)
    IN  IF Includes(fUpper, <<"B", "O", "M">>) THEN FeatheringBom
        ELSE IF Includes(fUpper, <<"M", "U", "I", "T", "O", " ", "B", "O", "M">>) THEN FeatheringMuitoBom
        ELSE IF Includes(fUpper, <<"R", "E", "G", "U", "L", "A", "R">>) THEN FeatheringRegular
        ELSE IF Includes(fUpper, <<"R", "U", "I", "M">>) THEN FeatheringRuim
        ELSE IF Includes(fUpper, <<"P", "E", "S", "S", "I", "M", "O">>) \/ Includes(fUpper, <<"P", "É", "S", "S", "I", "M", "O">>)
             THEN FeatheringPessimo
        ELSE FeatheringBom

\* the feathering enum a text names
featheringOf(featheringStr) ==
    LET fUpper == ToUpperCase(featheringStr)
    IN  IF Includes(fUpper, <<"M", "U", "I", "T", "O", " ", "B", "O", "M">>) THEN FeatheringMuitoBom
        ELSE IF Includes(fUpper, <<"B", "O", "M">>) THEN FeatheringBom
        ELSE IF Includes(fUpper, <<"R", "E", "G", "U", "L", "A", "R">>) THEN FeatheringRegular
        ELSE IF Includes(fUpper, <<"R", "U", "I", "M">>) THEN FeatheringRuim
        ELSE IF Includes(fUpper, <<"P", "E", "S", "S", "I", "M", "O">>) \/ Includes(fUpper, <<"P", "É", "S", "S", "I", "M", "O">>)
             THEN FeatheringPessimo
        ELSE FeatheringBom

\* the column positions parseCharCSV reads, 0 for a column the header lacks
charColumnIndexes(headers) ==
    [ idxId |-> indexOf(headers, <<"i", "d">>),
      idxDate |-> indexOf(headers, <<"d", "a", "t", "a">>),
      idxAviary |-> findIndexEither(headers, <<"a", "v", "i", "á", "r", "i", "o">>, <<"a", "v", "i", "a", "r", "i", "o">>),
      idxBatch |-> findIndex(headers, <<"l", "o", "t", "e">>),
      idxAge |-> findIndexEither(headers, <<"i", "d", "a", "d", "e">>, <<"s", "e", "m", "a", "n", "a", "s">>),
      idxWeight |-> findIndex(headers, <<"p", "e", "s", "o">>),
      idxUniformity |-> findIndex(headers, <<"u", "n", "i", "f", "o", "r", "m", "i", "d", "a", "d", "e">>),
      idxFeathering |-> findIndex(headers, <<"e", "m", "p", "e", "n", "a", "m", "e", "n", "t", "o">>) ]

\* the record parseCharCSV builds from the cells of a body line; a batch
\* cell the line lacks reads as the empty batch
parseCharRecord(cols, idx, uuid) ==
    [ id |-> IF idx.idxId > 0 /\ OrEmpty(Col(cols, idx.idxId)) # << >>
                  /\ Len(OrEmpty(Col(cols, idx.idxId))) > 5
             THEN cols[idx.idxId] ELSE uuid,
      date |-> parseDateFromBr(Col(cols, idx.idxDate)),
      aviary |-> parseAviary(IF OrEmpty(Col(cols, idx.idxAviary)) # << >>
                             THEN cols[idx.idxAviary] ELSE AviaryA1),
      batchId |-> IF idx.idxBatch > 0 THEN OrEmpty(Col(cols, idx.idxBatch)) ELSE << >>,
      weekAge |-> IF idx.idxAge > 0 THEN parseNum(Col(cols, idx.idxAge)) ELSE 0,
      batchWeight |-> IF idx.idxWeight > 0 THEN parseNum(Col(cols, idx.idxWeight)) ELSE 0,
      uniformity |-> IF idx.idxUniformity > 0 THEN parseNum(Col(cols, idx.idxUniformity))
                     ELSE 0,
      feathering |-> featheringOf(IF OrEmpty(Col(cols, idx.idxFeathering)) # << >>
                                  THEN cols[idx.idxFeathering] ELSE FeatheringBom) ]

\* if (!record.date || record.weekAge <= 0) continue; NaN <= 0 is false
charDiscarded(record) ==
    record.date = << >> \/ (record.weekAge # NaN /\ record.weekAge <= 0)

RECURSIVE parseCharLines(_, _, _, _, _)
parseCharLines(lines, i, delimiter, idx, uuids) ==
    IF i > Len(lines) THEN << >>
    ELSE LET cols == splitCSVLine(lines[i], delimiter)
             record == parseCharRecord(cols, idx, uuids[i])
         IN  (IF Len(cols) < 3 \/ charDiscarded(record) THEN << >> ELSE <<record>>)
                \o parseCharLines(lines, i + 1, delimiter, idx, uuids)

\* the records parseCharCSV returns when no line raises
parseCharCSV(csvText, uuids) ==
    LET lines == csvLines(csvText)
    IN  IF Len(lines) < 2 THEN << >>
        ELSE parseCharLines(lines, 2, delimiterOf(firstLineOf(lines)),
                            charColumnIndexes(headersOf(firstLineOf(lines))), uuids)

\* parseCharCSV raises: a body line of at least three cells has a date cell
\* with one or two parts around "/"
parseCharCSVThrows(csvText) ==
    LET lines == csvLines(csvText)
    IN  /\ Len(lines) >= 2
        /\ \E i \in 2..Len(lines) :
              LET cols == splitCSVLine(lines[i], delimiterOf(firstLineOf(lines)))
                  idx == charColumnIndexes(headersOf(firstLineOf(lines)))
              IN  /\ Len(cols) >= 3
                  /\ parseDateFromBr(Col(cols, idx.idxDate)) = TypeError

(***************************************************************************)
(* App: derived collections (useMemo)                                      *)
(***************************************************************************)

\* rawRecords.map(r => computeRecord(r, charRecords))
mapComputeRecord(records, chars) ==
    [i \in 1..Len(records) |-> computeRecord(records[i], chars)]

\* computedRecords: the computed records, newest first
computedRecords == sortByDateDesc(mapComputeRecord(rawRecords, charRecords))

\* computedRecords.map(r => r.fortnight)
fortnightsOf(records) == [i \in 1..Len(records) |-> records[i].fortnight]

\* Array.from(new Set(labels)) keeping duplicates
uniqueLabels_KeepAll(labels) == labels

\* Array.from(new Set(labels)): the first occurrence of each label, in order
RECURSIVE uniqueLabels(_)
uniqueLabels(labels) ==
    IF labels = << >> THEN << >>
    ELSE LET front == SubSeq(labels, 1, Len(labels) - 1)
             last == labels[Len(labels)]
         IN  IF \E i \in 1..Len(front) : front[i] = last
             THEN uniqueLabels(front)
             ELSE Append(uniqueLabels(front), last)

\* availableFortnights: the options of the fortnight filter
availableFortnights == sortFortnights(uniqueLabels(fortnightsOf(computedRecords)))

\* Reports.reportData: the keys of the groups, in the order of the report
reportKeys(records) == sortFortnights(uniqueLabels(fortnightsOf(records)))

(***************************************************************************)
(* App: the filter and the filtered records                                *)
(***************************************************************************)

\* new Date(): the local date <<year, month (1..12), day>> of getTodayStr
Now ==
    LET date == NewDate(getTodayStr)
    IN  <<date[1], date[2] + 1, date[3]>>

\* d.setDate(d.getDate() - daysAgo): the date daysAgo days earlier
RECURSIVE daysBefore(_, _)
daysBefore(date, daysAgo) ==
    IF daysAgo = 0 THEN date
    ELSE IF date[3] > 1 THEN daysBefore(<<date[1], date[2], date[3] - 1>>, daysAgo - 1)
    ELSE IF date[2] > 1
    THEN daysBefore(<<date[1], date[2] - 1, DaysInMonth(date[1], date[2] - 1)>>, daysAgo - 1)
    ELSE daysBefore(<<date[1] - 1, 12, 31>>, daysAgo - 1)

\* filteredRecords.getCutoffDate
getCutoffDate(daysAgo) ==
    LET d == daysBefore(Now, daysAgo)
        year == NumberToString(d[1])
        month == PadStart2(NumberToString(d[2]))
        day == PadStart2(NumberToString(d[3]))
    IN  year \o <<"-">> \o month \o <<"-">> \o day

\* s.startsWith(prefix)
StartsWith(s, prefix) == Len(prefix) <= Len(s) /\ SubSeq(s, 1, Len(prefix)) = prefix

\* String(r.year): "NaN" when the year did not parse
StringOfYear(year) ==
    IF year = << >> THEN <<"N","a","N">> ELSE NumberToString(year[1])

\* the time filter with the cutoff date itself left out
inTimeWindow_AfterCutoff(time, date) ==
    IF time = "7d" THEN StrLess(getCutoffDate(7), date)
    ELSE IF time = "30d" THEN StrLess(getCutoffDate(30), date)
    ELSE IF time = "thisMonth" THEN StartsWith(date, Substring0(getTodayStr, 7))
    ELSE IF time = "thisYear" THEN StartsWith(date, Substring0(getTodayStr, 4))
    ELSE TRUE

\* the time filter (default) of filteredRecords, for one record date
inTimeWindow(time, date) ==
    IF time = "7d" THEN StrLeq(getCutoffDate(7), date)
    ELSE IF time = "30d" THEN StrLeq(getCutoffDate(30), date)
    ELSE IF time = "thisMonth" THEN StartsWith(date, Substring0(getTodayStr, 7))
    ELSE IF time = "thisYear" THEN StartsWith(date, Substring0(getTodayStr, 4))
    ELSE TRUE

\* filteredRecords for given computed records and filter
filteredRecordsOf(records, f) ==
    LET OfAviary(r) == r.aviary = f.aviary
        OfBatch(r) == r.batchId = f.batchId
        OfFortnight(r) == r.fortnight = f.quinzena[1]
        OfYear(r) == StringOfYear(r.year) = f.year[1]
        InWindow(r) == inTimeWindow(f.time, r.date)
        byAviary == IF f.aviary # AllAviaries THEN SelectSeq(records, OfAviary) ELSE records
        result == IF Truthy(f.batchId) THEN SelectSeq(byAviary, OfBatch) ELSE byAviary
    IN  IF Truthy(f.quinzena) THEN SelectSeq(result, OfFortnight)
        ELSE IF Truthy(f.year) THEN SelectSeq(result, OfYear)
        ELSE SelectSeq(result, InWindow)

filteredRecords == filteredRecordsOf(computedRecords, filter)

\* the options of the year select: availableYears
availableYears == {StringOfYear(computedRecords[i].year) : i \in 1..Len(computedRecords)}

\* the options of the batch select: availableBatches
availableBatches ==
    {computedRecords[i].batchId[1] :
        i \in {j \in 1..Len(computedRecords) : Truthy(computedRecords[j].batchId)}}

\* the views that render the FilterBar
FilterBarViews == {"dashboard_general", "dashboard_aviary", "list", "reports"}

\* setFilter(f) from the FilterBar
setFilter(fn, value, f) ==
    /\ currentView \in FilterBarViews
    /\ filter' = f
    /\ lastCall' = [fn |-> fn, args |-> <<value>>]
    /\ UNCHANGED <<dataVars, currentView, editingId, deleteId, deleteCharId,
                   showDeleteAllConfirm, showDeleteAllCharConfirm, storageVars, mountVars>>

handleTimeChange(value) ==
    setFilter("handleTimeChange", value,
              [filter EXCEPT !.time = value, !.quinzena = << >>, !.year = << >>])

handleAviaryChange(value) ==
    setFilter("handleAviaryChange", value, [filter EXCEPT !.aviary = value])

handleFortnightChange(val) ==
    setFilter("handleFortnightChange", val,
              IF val # << >>
              THEN [filter EXCEPT !.time = "all", !.quinzena = <<val>>, !.year = << >>]
              ELSE [filter EXCEPT !.quinzena = << >>])

\* handleYearChange that keeps the fortnight
handleYearChange_KeepFortnight(val) ==
    setFilter("handleYearChange", val,
              IF val # << >>
              THEN [filter EXCEPT !.time = "all", !.year = <<val>>]
              ELSE [filter EXCEPT !.year = << >>])

handleYearChange(val) ==
    setFilter("handleYearChange", val,
              IF val # << >>
              THEN [filter EXCEPT !.time = "all", !.year = <<val>>, !.quinzena = << >>]
              ELSE [filter EXCEPT !.year = << >>])

handleBatchChange(val) ==
    setFilter("handleBatchChange", val,
              IF val # << >>
              THEN [filter EXCEPT !.batchId = <<val>>]
              ELSE [filter EXCEPT !.batchId = << >>])

\* the button "Limpar Filtros", rendered when the filter is not the initial one
clearFilters ==
    /\ \/ filter.time # "7d"
       \/ filter.aviary # AllAviaries
       \/ Truthy(filter.quinzena)
       \/ Truthy(filter.year)
       \/ Truthy(filter.batchId)
    /\ setFilter("clearFilters", << >>,
              [ time |-> "7d", aviary |-> AllAviaries, quinzena |-> << >>, year |-> << >>,
                batchId |-> << >> ])

(***************************************************************************)
(* Average laying rates (dashboards, PDF summary, reports)                 *)
(*                                                                         *)
(* Rates are exact quotients [num, den] with den > 0.                      *)
(***************************************************************************)

RatZero == [num |-> 0, den |-> 1]

RatAdd(a, b) == [num |-> a.num * b.den + b.num * a.den, den |-> a.den * b.den]

\* a / n and a * n for a positive integer n
RatDiv(a, n) == [num |-> a.num, den |-> a.den * n]
RatTimes(a, n) == [num |-> a.num * n, den |-> a.den]

RatEq(a, b) == a.num * b.den = b.num * a.den

\* r.layingRate !== null
HasRate(r) == r.layingRate # << >>

\* r.layingRate is truthy: neither null nor 0
HasTruthyRate(r) == r.layingRate # << >> /\ r.layingRate[1].num # 0

\* r.layingRate || 0
rateOrZero(r) == IF HasTruthyRate(r) THEN r.layingRate[1] ELSE RatZero

\* records.reduce((sum, r) => sum + (r.layingRate || 0), 0)
RECURSIVE sumRates(_)
sumRates(records) ==
    IF records = << >> THEN RatZero
    ELSE RatAdd(sumRates(SubSeq(records, 1, Len(records) - 1)),
                rateOrZero(records[Len(records)]))

\* the records of one aviary, in order
recordsOfAviary(records, aviary) ==
    LET OfAviary(r) == r.aviary = aviary
    IN  SelectSeq(records, OfAviary)

\* DashboardGeneral.stats.avgRate
generalAvgRate(records) ==
    LET rateSum == sumRates(records)
        validRateCount == Len(SelectSeq(records, HasRate))
    IN  IF validRateCount > 0 THEN RatDiv(rateSum, validRateCount) ELSE RatZero

\* DashboardAviary.aviaryData: avgRate of the summary of one aviary
aviaryAvgRate(records, aviary) ==
    LET rates == SelectSeq(recordsOfAviary(records, aviary), HasTruthyRate)
    IN  IF Len(rates) > 0 THEN RatDiv(sumRates(rates), Len(rates)) ELSE RatZero

\* generatePDF: avgRate of the summary
pdfAvgRate(records) ==
    LET validRates == SelectSeq(records, HasRate)
    IN  IF Len(validRates) > 0 THEN RatDiv(sumRates(validRates), Len(validRates))
        ELSE RatZero

\* Reports.reportData: generalRate of one fortnight's records
reportGeneralRate(groupRecs) ==
    LET validRates == SelectSeq(groupRecs, HasRate)
    IN  IF Len(validRates) > 0 THEN RatDiv(sumRates(validRates), Len(validRates))
        ELSE RatZero

\* Reports.reportData: aviaryRates[aviary] of one fortnight's records
reportAviaryRate(groupRecs, aviary) ==
    LET counted == SelectSeq(recordsOfAviary(groupRecs, aviary), HasRate)
    IN  IF Len(counted) > 0 THEN RatDiv(sumRates(counted), Len(counted)) ELSE RatZero

\* Reports.handleGenerateAI: avgRate, in percent
aiAvgRate(records) ==
    LET validRates == SelectSeq(records, HasRate)
    IN  IF Len(validRates) > 0
        THEN RatTimes(RatDiv(sumRates(validRates), Len(validRates)), 100)
        ELSE RatZero

\* Reports.handleGenerateAI: the rate of one aviary's line, in percent
aiAviaryRate(records, aviary) ==
    LET counted == SelectSeq(recordsOfAviary(records, aviary), HasTruthyRate)
    IN  IF Len(counted) > 0 THEN RatTimes(RatDiv(sumRates(counted), Len(counted)), 100)
        ELSE RatZero

(***************************************************************************)
(* Temporal utilities applied to bounded inputs                            *)
(***************************************************************************)

\* years FirstYear .. FirstYear + YearSpan
YearSpan == 2
Years == 2023..(2023 + YearSpan)

Pad4(s) == IF Len(s) >= 4 THEN s ELSE SubSeq(<<"0", "0", "0", "0">>, 1, 4 - Len(s)) \o s

\* the ISO form YYYY-MM-DD of a calendar date
IsoDate(y, m, d) ==
    Pad4(NatToString(y)) \o <<"-">> \o PadStart2(NatToString(m)) \o <<"-">>
        \o PadStart2(NatToString(d))

ValidDates == {<<y, m, d>> \in Years \X (1..12) \X (1..31) : d <= DaysInMonth(y, m)}

\* the well-formed label of year y, month m (1..12) and fortnight q (1 | 2)
FortnightLabel(y, m, q) ==
    monthNames[m] \o <<"/">> \o NatToString(y) \o <<" ", "-", " ">>
        \o (IF q = 1 THEN Quinzena1 ELSE Quinzena2)

FortnightTriples == Years \X (1..12) \X {1, 2}

WellFormedLabels == {FortnightLabel(t[1], t[2], t[3]) : t \in FortnightTriples}

\* labels that are not well-formed: without the separator, with an unknown
\* month, with a missing, unparseable, zero or negative year
OddLabels ==
    { << >>,
      <<"J","a","n","/","2","0","2","4">>,
      <<"J","a","n","/","2","0","2","4","-","1","ª">>,
      <<"1","ª"," ","Q","u","i","n","z","e","n","a">>,
      <<" ","-"," ">>,
      <<"J","a","n"," ","-"," ">> \o Quinzena1,
      <<"X","y","z","/","a","b","c"," ","-"," ">> \o Quinzena1,
      <<"X","y","z","/","0"," ","-"," ">> \o Quinzena2,
      <<"X","y","z","/","2","0","2","4"," ","-"," ">> \o Quinzena1,
      <<"J","a","n","/","0"," ","-"," ">> \o Quinzena1,
      <<"J","a","n","/","-","5"," ","-"," ">> \o Quinzena1,
      <<"j","a","n","/","2","0","2","4"," ","-"," ">> \o Quinzena1 }

CompareLabels == WellFormedLabels \cup OddLabels

\* the labels that get sorted: months whose abbreviations are not in
\* alphabetical order, over two years
SortLabels ==
    {FortnightLabel(y, m, q) : y \in {2023, 2024}, m \in {2, 4}, q \in {1, 2}}

MaxSort == 3

RECURSIVE DistinctLists(_, _)
DistinctLists(S, n) ==
    IF n = 0 THEN {<< >>}
    ELSE LET shorter == DistinctLists(S, n - 1)
         IN  shorter \cup {Append(l, x) : l \in {k \in shorter : Len(k) = n - 1}, x \in S}

Range(s) == {s[i] : i \in 1..Len(s)}

NoDuplicates(s) == \A i, j \in 1..Len(s) : s[i] = s[j] => i = j

CallGetFortnight ==
    /\ lastCall = NoCall
    /\ \E t \in ValidDates :
         LET dateStr == IsoDate(t[1], t[2], t[3])
         IN  lastCall' = [fn |-> "getFortnight", args |-> <<dateStr>>, given |-> t,
                          ret |-> getFortnight(dateStr)]
    /\ UNCHANGED <<dataVars, uiVars, storageVars, mountVars>>

CallCompareFortnights ==
    /\ lastCall = NoCall
    /\ \E a \in CompareLabels, b \in CompareLabels :
         lastCall' = [fn |-> "compareFortnights", args |-> <<a, b>>,
                      ret |-> compareFortnights(a, b)]
    /\ UNCHANGED <<dataVars, uiVars, storageVars, mountVars>>

\* availableFortnights: Array.from(new Set(labels)).sort(descending)
CallSortFortnights ==
    /\ lastCall = NoCall
    /\ \E s \in {l \in DistinctLists(SortLabels, MaxSort) : NoDuplicates(l)} :
         lastCall' = [fn |-> "sortFortnights", args |-> <<s>>, ret |-> sortFortnights(s)]
    /\ UNCHANGED <<dataVars, uiVars, storageVars, mountVars>>

NextFortnight == CallGetFortnight \/ CallCompareFortnights \/ CallSortFortnights

SpecFortnight == Init /\ [][NextFortnight]_vars

(***************************************************************************)
(* computeRecord applied to bounded inputs                                 *)
(***************************************************************************)

MaxSnapshots == 2
MaxCount == 2

BatchL1 == <<"L","1">>
BatchL2 == <<"L","2">>
BatchL9 == <<"L","9">>

\* snapshot dates, and record dates before, on and between them
SnapshotDates == {IsoDate(2024, 1, 1), IsoDate(2024, 3, 1), IsoDate(2024, 3, 15)}
RecordDates == {IsoDate(2023, 12, 1), IsoDate(2024, 3, 1), IsoDate(2024, 3, 10)}

Snapshot(date, aviary, batchId) ==
    [ id |-> <<"c","h","a","r","-","0","1">>, date |-> date, aviary |-> aviary,
      batchId |-> batchId, weekAge |-> 30, batchWeight |-> 1800, uniformity |-> 90,
      feathering |-> FeatheringBom ]

Snapshots ==
    {Snapshot(d, a, b) : d \in SnapshotDates, a \in {AviaryA1, AviaryA2},
                         b \in {BatchL1, BatchL2}}

RECURSIVE ListsUpTo(_, _)
ListsUpTo(S, n) ==
    IF n = 0 THEN {<< >>}
    ELSE LET shorter == ListsUpTo(S, n - 1)
         IN  shorter \cup {Append(l, x) : l \in {k \in shorter : Len(k) = n - 1}, x \in S}

SnapshotLists == ListsUpTo(Snapshots, MaxSnapshots)

Egg(id, date, aviary, batchId, clean, dirty, cracked, floorEggs, birds) ==
    [ id |-> id, date |-> date, aviary |-> aviary, batchId |-> batchId,
      clean |-> clean, dirty |-> dirty, cracked |-> cracked, floorEggs |-> floorEggs,
      birds |-> birds, weight |-> <<60>>, birdWeight |-> << >>, mortality |-> 0,
      observation |-> << >> ]

EggId1 == <<"e","g","g","-","0","1">>

\* records that vary what the batch linking reads
LinkRecords ==
    {Egg(EggId1, d, a, b, 1, 0, 0, << >>, 2) :
        d \in RecordDates, a \in {AviaryA1, AviaryA2}, b \in {<< >>, <<BatchL9>>}}

\* records that vary what the metrics read
CountRecords ==
    {Egg(EggId1, IsoDate(2024, 3, 10), AviaryA2, << >>, c, d, k, f, b) :
        c \in 0..MaxCount, d \in 0..MaxCount, k \in 0..MaxCount,
        f \in {<< >>} \cup {<<n>> : n \in 0..MaxCount}, b \in 0..MaxCount}

ComputeInputs ==
    (LinkRecords \X SnapshotLists)
        \cup (CountRecords \X {<< >>, <<Snapshot(IsoDate(2024, 1, 1), AviaryA2, BatchL1)>>})

CallComputeRecord ==
    /\ lastCall = NoCall
    /\ \E in \in ComputeInputs :
         lastCall' = [fn |-> "computeRecord", args |-> in,
                      ret |-> computeRecord(in[1], in[2])]
    /\ UNCHANGED <<dataVars, uiVars, storageVars, mountVars>>

NextCompute == CallComputeRecord

SpecCompute == Init /\ [][NextCompute]_vars

(***************************************************************************)
(* Saves and imports applied to bounded inputs                             *)
(***************************************************************************)

MaxImport == 2

MergeDate1 == IsoDate(2024, 3, 1)
MergeDate2 == IsoDate(2024, 3, 10)

CsvId1 == <<"c","s","v","-","0","1">>
CsvId2 == <<"c","s","v","-","0","2">>

\* parsed production rows: two natural keys, and two rows of one of them that
\* differ in id and in the counts
ImportedEggs ==
    { Egg(CsvId1, MergeDate1, AviaryA1, <<BatchL1>>, 1, 0, 0, <<0>>, 10),
      Egg(CsvId2, MergeDate1, AviaryA1, <<BatchL1>>, 2, 0, 0, <<0>>, 10),
      Egg(CsvId1, MergeDate2, AviaryA1, <<BatchL1>>, 1, 0, 0, <<0>>, 10) }

\* parsed characterization rows: two rows of one natural key that differ in id
\* and in the age
ImportedChars ==
    { [Snapshot(MergeDate1, AviaryA1, BatchL1) EXCEPT !.id = CsvId1],
      [Snapshot(MergeDate1, AviaryA1, BatchL1) EXCEPT !.id = CsvId2, !.weekAge = 31] }

NonEmptyLists(S) == ListsUpTo(S, MaxImport) \ {<< >>}

\* the record being edited, if any
initialRecord(records) ==
    IF Truthy(editingId) /\ \E i \in 1..Len(records) : records[i].id = editingId[1]
    THEN <<records[CHOOSE i \in 1..Len(records) : records[i].id = editingId[1]]>>
    ELSE << >>

\* initialData?.id || generateUUID()
FormIds(records) ==
    IF initialRecord(records) # << >> /\ initialRecord(records)[1].id # << >>
    THEN {initialRecord(records)[1].id}
    ELSE Uuids \ IdsInUse

\* what the user types in the production form; the batch is auto-detected
RecordFormData(date, aviary) ==
    [ date |-> date, aviary |-> aviary,
      batchId |-> autoDetectBatch(charRecords, aviary, date),
      clean |-> 5, dirty |-> 0, cracked |-> 0, floorEggs |-> 0, birds |-> 10,
      weight |-> << >>, birdWeight |-> << >>, mortality |-> 0, observation |-> << >> ]

SubmitRecordForm ==
    \E date \in {MergeDate1, MergeDate2}, id \in FormIds(rawRecords) :
        /\ validateRecordForm(RecordFormData(date, AviaryA1))
        /\ handleSaveRecord(submittedRecord(id, RecordFormData(date, AviaryA1)))

CharFormData(date, aviary, batchId) ==
    [ date |-> date, aviary |-> aviary, batchId |-> batchId, weekAge |-> 30,
      batchWeight |-> 1800, uniformity |-> 90, feathering |-> FeatheringBom ]

\* onSave({ id: initialData?.id || generateUUID(), ...formData })
submittedChar(id, formData) ==
    [ id |-> id, date |-> formData.date, aviary |-> formData.aviary,
      batchId |-> formData.batchId, weekAge |-> formData.weekAge,
      batchWeight |-> formData.batchWeight, uniformity |-> formData.uniformity,
      feathering |-> formData.feathering ]

SubmitCharForm ==
    \E batchId \in {BatchL1, << >>}, id \in FormIds(charRecords) :
        /\ validateCharForm(CharFormData(MergeDate1, AviaryA1, batchId))
        /\ handleSaveChar(submittedChar(id, CharFormData(MergeDate1, AviaryA1, batchId)))

ImportRecords == \E newRecords \in NonEmptyLists(ImportedEggs) : handleImportRecords(newRecords)

ImportCharRecords ==
    \E newRecords \in NonEmptyLists(ImportedChars) : handleImportCharRecords(newRecords)

NextMerge ==
    \/ SubmitRecordForm
    \/ SubmitCharForm
    \/ ImportRecords
    \/ ImportCharRecords

SpecMerge == Init /\ [][NextMerge]_vars

(***************************************************************************)
(* CSV export and import applied to bounded inputs                         *)
(***************************************************************************)

MaxRows == 2

\* notes: none, plain, with a semicolon, with double quotes
CsvNotes == { << >>, <<<<"o", "k">>>>, <<<<"a", ";", "b">>>>, <<<<"a", " ", "\"", "b", "\"", " ", "c">>>> }

\* egg weights: none, zero, sixty grams
CsvWeights == { << >>, <<0>>, <<60>> }

\* computed records that vary the weight and the note
CsvRecords ==
    { computeRecord(
        [Egg(CsvId1, MergeDate1, AviaryA2, <<BatchL1>>, 5, 1, 0, <<3>>, 10)
            EXCEPT !.weight = w, !.observation = o], << >>) :
        w \in CsvWeights, o \in CsvNotes }

\* what generateUUID returns for each line of a file
CsvUuids ==
    << <<"u","u","i","d","-","1">>, <<"u","u","i","d","-","2">>,
       <<"u","u","i","d","-","3">>, <<"u","u","i","d","-","4">>,
       <<"u","u","i","d","-","5">> >>

\* a collection is exported and the downloaded file is parsed
CallExportParse ==
    /\ lastCall = NoCall
    /\ \E records \in ListsUpTo(CsvRecords, MaxRows) :
         lastCall' = [fn |-> "parseCSV", args |-> <<records>>,
                      text |-> downloadedText(exportToCSV(records)),
                      throws |-> parseCSVThrows(downloadedText(exportToCSV(records))),
                      ret |-> parseCSV(downloadedText(exportToCSV(records)), CsvUuids)]
    /\ UNCHANGED <<dataVars, uiVars, storageVars, mountVars>>

MaxCells == 2

\* cell texts: empty, plain, with each delimiter, with double quotes
CellTexts ==
    { << >>, <<"a", "b">>, <<"a", ";", "b">>, <<"a", ",", "b">>, <<"a", " ", "\"", "b", "\"", " ", "c">>, <<"\"", "x", "\"">>, <<"s", "a", "y", " ", "\"", ";", "\"", " ", "n", "o", "w">>, <<"1", ",", "5">> }

\* a text written as a CSV field: in double quotes, its quotes doubled
quotedField(text) == <<"\"">> \o ReplaceAll(text, <<"\"">>, <<"\"", "\"">>) \o <<"\"">>

\* a line of quoted fields is tokenized
CallSplitCSVLine ==
    /\ lastCall = NoCall
    /\ \E cells \in ListsUpTo(CellTexts, MaxCells) \ {<< >>}, delimiter \in {";", ","} :
         lastCall' = [fn |-> "splitCSVLine", given |-> cells,
                      args |-> <<Join([i \in 1..Len(cells) |-> quotedField(cells[i])],
                                      <<delimiter>>), delimiter>>,
                      ret |-> splitCSVLine(
                                Join([i \in 1..Len(cells) |-> quotedField(cells[i])],
                                     <<delimiter>>), delimiter)]
    /\ UNCHANGED <<dataVars, uiVars, storageVars, mountVars>>

\* headers of production files: with and without the date column
EggHeaderWithDate == <<"I", "D", ";", "D", "a", "t", "a", ";", "A", "v", "i", "á", "r", "i", "o", ";", "O", "v", "o", "s", " ", "L", "i", "m", "p", "o", "s", ";", "A", "v", "e", "s", " ", "V", "i", "v", "a", "s", ";", "P", "e", "s", "o", " ", "O", "v", "o", "s", " ", "(", "g", ")">>
EggHeaderNoDate == <<"I", "D", ";", "A", "v", "i", "á", "r", "i", "o", ";", "O", "v", "o", "s", " ", "L", "i", "m", "p", "o", "s", ";", "A", "v", "e", "s", " ", "V", "i", "v", "a", "s", ";", "P", "e", "s", "o", " ", "O", "v", "o", "s", " ", "(", "g", ")">>

\* date cells: empty, day/month/year, short day/month/year, ISO
DateCells == { << >>, <<"0", "5", "/", "0", "3", "/", "2", "0", "2", "4">>, <<"5", "/", "3", "/", "2", "4">>, <<"2", "0", "2", "4", "-", "0", "3", "-", "0", "5">> }

\* numeric cells: empty, zero, a number, not a number
NumberCells == { << >>, <<"0">>, <<"7">>, <<"a", "b", "c">> }

\* the cells of one body line of a production file
EggCells ==
    [ date : DateCells, clean : NumberCells, birds : {<<"0">>, <<"1", "0">>, <<"x">>},
      weight : {<< >>, <<"6", "0">>, <<"x">>} ]

\* the body line for the cells under a header
eggLine(header, cells) ==
    Join(<<CsvId1>> \o (IF header = EggHeaderWithDate THEN <<cells.date>> ELSE << >>)
            \o <<AviaryA2, cells.clean, cells.birds, cells.weight>>, <<";">>)

\* a production file of one body line is parsed
CallParseCSV ==
    /\ lastCall = NoCall
    /\ \E header \in {EggHeaderWithDate, EggHeaderNoDate}, cells \in EggCells :
         /\ header = EggHeaderNoDate => cells.date = << >>
         /\ lastCall' = [fn |-> "parseCSVText", header |-> header, cells |-> cells,
                         text |-> header \o <<"\n">> \o eggLine(header, cells),
                         throws |-> parseCSVThrows(header \o <<"\n">> \o eggLine(header, cells)),
                         ret |-> parseCSV(header \o <<"\n">> \o eggLine(header, cells),
                                          CsvUuids)]
    /\ UNCHANGED <<dataVars, uiVars, storageVars, mountVars>>

\* headers of characterization files: with and without the feathering column
CharHeader ==
    <<"I", "D", ";", "D", "a", "t", "a", ";", "A", "v", "i", "á", "r", "i", "o", ";", "L", "o", "t", "e", ";", "I", "d", "a", "d", "e", " ", "S", "e", "m", "a", "n", "a", "s", ";", "P", "e", "s", "o", " ", "L", "o", "t", "e", " ", "(", "g", ")", ";", "U", "n", "i", "f", "o", "r", "m", "i", "d", "a", "d", "e", " ", "(", "%", ")", ";", "E", "m", "p", "e", "n", "a", "m", "e", "n", "t", "o">>
CharHeaderNoFeathering ==
    <<"I", "D", ";", "D", "a", "t", "a", ";", "A", "v", "i", "á", "r", "i", "o", ";", "L", "o", "t", "e", ";", "I", "d", "a", "d", "e", " ", "S", "e", "m", "a", "n", "a", "s", ";", "P", "e", "s", "o", " ", "L", "o", "t", "e", " ", "(", "g", ")", ";", "U", "n", "i", "f", "o", "r", "m", "i", "d", "a", "d", "e", " ", "(", "%", ")">>

\* feathering cells: empty, each category in several cases, texts naming
\* two categories, a text naming none
FeatheringCells ==
    { << >>, <<"M", "u", "i", "t", "o", " ", "B", "o", "m">>, <<"m", "u", "i", "t", "o", " ", "b", "o", "m">>, <<"B", "o", "m">>, <<"B", "O", "M">>, <<"r", "e", "g", "u", "l", "a", "r">>, <<"R", "u", "i", "m">>,
      <<"p", "é", "s", "s", "i", "m", "o">>, <<"P", "e", "s", "s", "i", "m", "o">>, <<"x", "y", "z">>, <<"n", "e", "m", " ", "m", "u", "i", "t", "o", " ", "b", "o", "m", " ", "n", "e", "m", " ", "r", "u", "i", "m">>, <<"R", "u", "i", "m", " ", "o", "u", " ", "R", "e", "g", "u", "l", "a", "r">> }

\* the cells of one body line of a characterization file
CharCells ==
    [ date : {<< >>, <<"0", "5", "/", "0", "3", "/", "2", "0", "2", "4">>}, weekAge : {<< >>, <<"0">>, <<"3", "0">>, <<"a", "b", "c">>},
      uniformity : {<<"9", "0">>, <<"x">>}, feathering : FeatheringCells ]

charLine(header, cells) ==
    Join(<<CsvId1, cells.date, AviaryA2, BatchL1, cells.weekAge, <<"1", "8", "0", "0">>, cells.uniformity>>
            \o (IF header = CharHeader THEN <<cells.feathering>> ELSE << >>), <<";">>)

\* a characterization file of one body line is parsed
CallParseCharCSV ==
    /\ lastCall = NoCall
    /\ \E header \in {CharHeader, CharHeaderNoFeathering}, cells \in CharCells :
         /\ header = CharHeaderNoFeathering => cells.feathering = << >>
         /\ lastCall' = [fn |-> "parseCharCSVText", header |-> header, cells |-> cells,
                         text |-> header \o <<"\n">> \o charLine(header, cells),
                         throws |-> parseCharCSVThrows(
                                        header \o <<"\n">> \o charLine(header, cells)),
                         ret |-> parseCharCSV(header \o <<"\n">> \o charLine(header, cells),
                                              CsvUuids)]
    /\ UNCHANGED <<dataVars, uiVars, storageVars, mountVars>>

\* texts handed to parseDateFromBr: empty, without "/", day/month/year with
\* one- and two-digit parts and two- and four-digit years
DateTexts ==
    { << >>, <<"2", "0", "2", "4", "-", "0", "3", "-", "0", "5">>, <<"a", "b", "c">>, <<"2", "0", "2", "4", "0", "3", "0", "5">>, <<"0", "5", "/", "0", "3", "/", "2", "0", "2", "4">>, <<"5", "/", "3", "/", "2", "0", "2", "4">>, <<"5", "/", "3", "/", "2", "4">>,
      <<"1", "5", "/", "1", "2", "/", "9", "9">>, <<"1", "/", "1", "2", "/", "2", "0", "2", "3">>, <<"3", "1", "/", "1", "/", "2", "3">> }

\* an ISO date is formatted and parsed back, or a text is parsed
CallParseDateFromBr ==
    /\ lastCall = NoCall
    /\ \/ \E t \in ValidDates :
            LET d == IsoDate(t[1], t[2], t[3])
            IN  lastCall' = [fn |-> "parseDateFromBr", given |-> <<d>>,
                             args |-> <<<<formatDateBr(d)>>>>,
                             ret |-> parseDateFromBr(<<formatDateBr(d)>>)]
       \/ \E dateBr \in {<< >>} \cup {<<t>> : t \in DateTexts} :
            lastCall' = [fn |-> "parseDateFromBr", given |-> << >>,
                         args |-> <<dateBr>>,
                         ret |-> parseDateFromBr(dateBr)]
    /\ UNCHANGED <<dataVars, uiVars, storageVars, mountVars>>

NextCsv ==
    \/ CallExportParse
    \/ CallSplitCSVLine
    \/ CallParseCSV
    \/ CallParseCharCSV
    \/ CallParseDateFromBr

SpecCsv == Init /\ [][NextCsv]_vars

(***************************************************************************)
(* Averages applied to bounded inputs                                      *)
(***************************************************************************)

MaxStatRecords == 2

\* computed records of one fortnight with no birds (rate null), with birds
\* and no eggs (rate 0) and with birds and eggs
StatRecords ==
    { computeRecord(Egg(EggId1, MergeDate1, a, << >>, c, 0, 0, << >>, b), << >>) :
        a \in {AviaryA1, AviaryA2}, c \in {0, 5, 10}, b \in {0, 10} }

\* every consumer averages the laying rates of a collection
CallAverages ==
    /\ lastCall = NoCall
    /\ \E records \in ListsUpTo(StatRecords, MaxStatRecords) :
         lastCall' = [fn |-> "averages", args |-> <<records>>,
                      general |-> generalAvgRate(records),
                      pdf |-> pdfAvgRate(records),
                      report |-> reportGeneralRate(records),
                      ai |-> aiAvgRate(records),
                      aviary |-> [a \in {AviaryA1, AviaryA2} |-> aviaryAvgRate(records, a)],
                      reportAviary |->
                          [a \in {AviaryA1, AviaryA2} |-> reportAviaryRate(records, a)],
                      aiAviary |-> [a \in {AviaryA1, AviaryA2} |-> aiAviaryRate(records, a)]]
    /\ UNCHANGED <<dataVars, uiVars, storageVars, mountVars>>

NextStats == CallAverages

SpecStats == Init /\ [][NextStats]_vars

(***************************************************************************)
(* Saves and imports of records of several periods                         *)
(***************************************************************************)

\* dates of months whose abbreviations are not in alphabetical order (Dez,
\* Jan, Abr, Ago), over two years: both halves of one month, two dates of
\* one fortnight
PeriodDates ==
    { IsoDate(2023, 12, 20), IsoDate(2024, 1, 5), IsoDate(2024, 1, 20),
      IsoDate(2024, 4, 10), IsoDate(2024, 4, 12), IsoDate(2024, 8, 10) }

\* date cells of an imported file: parseDateFromBr keeps a text without '/'
\* as it is and accepts the year 0000
ImportedDates == PeriodDates \cup { <<"a","b","c">>, IsoDate(0, 1, 5) }

SavePeriodRecord ==
    /\ ~Truthy(editingId)
    /\ \E date \in PeriodDates, id \in Uuids \ IdsInUse :
         /\ validateRecordForm(RecordFormData(date, AviaryA1))
         /\ handleSaveRecord(submittedRecord(id, RecordFormData(date, AviaryA1)))

\* one parsed row of each date
ImportedPeriodEggs ==
    {Egg(CsvId1, date, AviaryA1, << >>, 1, 0, 0, <<0>>, 10) : date \in ImportedDates}

ImportPeriodRecords ==
    \E importedRec \in ImportedPeriodEggs : handleImportRecords(<<importedRec>>)

\* a snapshot has to exist before the production form validates
NextPeriods ==
    \/ SubmitCharForm
    \/ SavePeriodRecord
    \/ ImportPeriodRecords

SpecPeriods == Init /\ [][NextPeriods]_vars

(***************************************************************************)
(* computeRecord applied to snapshots of equal dates, in every order       *)
(***************************************************************************)

MaxTied == 3

\* snapshots of the record's aviary of two dates and two batches, and one of
\* another aviary
TiedSnapshots ==
    {Snapshot(d, AviaryA1, b) : d \in {IsoDate(2024, 1, 1), IsoDate(2024, 3, 1)},
                                b \in {BatchL1, BatchL2}}
        \cup {Snapshot(IsoDate(2024, 3, 1), AviaryA2, BatchL1)}

\* records dated before and after the snapshots
TiedRecords ==
    {Egg(EggId1, d, AviaryA1, <<BatchL9>>, 1, 0, 0, << >>, 2) :
        d \in {IsoDate(2023, 12, 1), IsoDate(2024, 3, 10)}}

\* the collection in every order
PermutationsOf(s) ==
    IF s = << >> THEN {<< >>}
    ELSE {[i \in 1..Len(s) |-> s[f[i]]] : f \in Permutations(1..Len(s))}

\* two calls with the same arguments, and one with each order of the snapshots
CallComputeRecordTwice ==
    /\ lastCall = NoCall
    /\ \E record \in TiedRecords, chars \in ListsUpTo(TiedSnapshots, MaxTied) :
         LET recordAfter == recordAfterCompute(record, chars)
             arraysAfter == arraysAfterCompute(record, chars)
         IN  lastCall' = [fn |-> "computeRecordTwice", args |-> <<record, chars>>,
                          ret |-> computeRecord(record, chars),
                          after |-> <<recordAfter, arraysAfter.charRecords>>,
                          sorted |-> arraysAfter.aviaryChars,
                          again |-> computeRecord(recordAfter, arraysAfter.charRecords),
                          byOrder |-> [p \in PermutationsOf(chars) |->
                                          computeRecord(record, p).batchId]]
    /\ UNCHANGED <<dataVars, uiVars, storageVars, mountVars>>

NextTied == CallComputeRecordTwice

SpecTied == Init /\ [][NextTied]_vars

(***************************************************************************)
(* The FilterBar applied to stored collections                             *)
(***************************************************************************)

MaxFiltered == 2

EggId2 == <<"e","g","g","-","0","2">>
EggId3 == <<"e","g","g","-","0","3">>
EggId4 == <<"e","g","g","-","0","4">>
EggId5 == <<"e","g","g","-","0","5">>
EggId6 == <<"e","g","g","-","0","6">>

\* records dated, with respect to 2024-03-20: within 7 days, on the 7-day
\* cutoff, earlier in the month, on the 30-day cutoff, earlier in the year,
\* and in the year before
FilterRecords ==
    { Egg(EggId1, IsoDate(2024, 3, 18), AviaryA1, <<BatchL1>>, 1, 0, 0, <<0>>, 10),
      Egg(EggId2, IsoDate(2024, 3, 13), AviaryA2, <<BatchL2>>, 1, 0, 0, <<0>>, 10),
      Egg(EggId3, IsoDate(2024, 3, 1), AviaryA1, <<BatchL1>>, 1, 0, 0, <<0>>, 10),
      Egg(EggId4, IsoDate(2024, 2, 19), AviaryA2, <<BatchL1>>, 1, 0, 0, <<0>>, 10),
      Egg(EggId5, IsoDate(2024, 1, 10), AviaryA1, <<BatchL2>>, 1, 0, 0, <<0>>, 10),
      Egg(EggId6, IsoDate(2023, 12, 20), AviaryA1, << >>, 1, 0, 0, <<0>>, 10) }

\* the collections found in storage at the mount, in the order of the ids
FilterCollections ==
    {l \in DistinctLists(FilterRecords, MaxFiltered) :
        \A i, j \in 1..Len(l) : i < j => StrLess(l[i].id, l[j].id)}

\* the App after a mount that loaded a stored collection
InitFilter ==
    /\ rawRecords \in FilterCollections
    /\ charRecords = << >>
    /\ currentView = "dashboard_general"
    /\ editingId = << >>
    /\ deleteId = << >>
    /\ deleteCharId = << >>
    /\ showDeleteAllConfirm = FALSE
    /\ showDeleteAllCharConfirm = FALSE
    /\ filter = initialFilter
    /\ storedRecords = <<rawRecords>>
    /\ storedChars = << << >> >>
    /\ mountStep = "idle"
    /\ loaded = << >>
    /\ lastCall = NoCall

TimeFilters == {"7d", "30d", "thisMonth", "thisYear", "all"}

ChangeTime == \E value \in TimeFilters : handleTimeChange(value)

ChangeAviary == \E value \in {AllAviaries, AviaryA1, AviaryA2} : handleAviaryChange(value)

ChangeFortnight ==
    \E val \in {<< >>} \cup Range(availableFortnights) : handleFortnightChange(val)

ChangeYear == \E val \in {<< >>} \cup availableYears : handleYearChange(val)

ChangeBatch == \E val \in {<< >>} \cup availableBatches : handleBatchChange(val)

NextFilter ==
    \/ ChangeTime
    \/ ChangeAviary
    \/ ChangeFortnight
    \/ ChangeYear
    \/ ChangeBatch
    \/ clearFilters

SpecFilter == InitFilter /\ [][NextFilter]_vars

(***************************************************************************)
(* The application: every control the rendered page offers                 *)
(***************************************************************************)

\* dates inside the default seven-day window of the list
AppDate1 == IsoDate(2024, 3, 18)
AppDate2 == IsoDate(2024, 3, 19)

\* the stored characterization an installation starts with
AppSnapshot == Snapshot(MergeDate1, AviaryA1, BatchL1)

\* an installation whose storage held one characterization and no production
InitApp ==
    /\ rawRecords = << >>
    /\ charRecords = <<AppSnapshot>>
    /\ currentView = "dashboard_general"
    /\ editingId = << >>
    /\ deleteId = << >>
    /\ deleteCharId = << >>
    /\ showDeleteAllConfirm = FALSE
    /\ showDeleteAllCharConfirm = FALSE
    /\ filter = initialFilter
    /\ storedRecords = <<rawRecords>>
    /\ storedChars = <<charRecords>>
    /\ mountStep = "idle"
    /\ loaded = << >>
    /\ lastCall = NoCall

\* the targets of the Layout menu
LayoutViews ==
    {"dashboard_general", "dashboard_aviary", "list", "form", "characterization_list",
     "reports"}

Navigate == \E v \in LayoutViews : setView(v)

idsOf(records) == {records[i].id : i \in 1..Len(records)}

\* the rows of RecordList
ListedIds == idsOf(filteredRecords)

EditRecord == currentView = "list" /\ \E id \in ListedIds : handleEditRequest(id)

RequestDelete == currentView = "list" /\ \E id \in ListedIds : handleDeleteRequest(id)

\* ConfirmModal renders its buttons only while isOpen
ConfirmDelete == Truthy(deleteId) /\ confirmDelete

CancelDelete == Truthy(deleteId) /\ cancelDelete

RequestDeleteAll == currentView = "list" /\ handleDeleteAllRequest

ConfirmDeleteAll == showDeleteAllConfirm /\ confirmDeleteAll

CancelDeleteAll == showDeleteAllConfirm /\ cancelDeleteAll

\* what the user leaves in the production form: 5 clean eggs in a new record,
\* 6 when a record is being edited
AppFormData ==
    { [ date |-> AppDate1, aviary |-> AviaryA1, batchId |-> << >>,
        clean |-> IF Truthy(editingId) THEN 6 ELSE 5,
        dirty |-> 0, cracked |-> 0, floorEggs |-> 0, birds |-> 10,
        weight |-> << >>, birdWeight |-> << >>, mortality |-> 0, observation |-> << >> ] }

\* the auto-detect effect fills formData.batchId
detectedBatch(formData, chars) ==
    [formData EXCEPT !.batchId = autoDetectBatch(chars, formData.aviary, formData.date)]

withDetectedBatch(formData) == detectedBatch(formData, charRecords)

\* initialData?.id || generateUUID()
idOfSubmit(initialData) ==
    IF initialData # << >> /\ initialData[1].id # << >>
    THEN {initialData[1].id}
    ELSE Uuids \ IdsInUse

SaveRecordForm ==
    /\ currentView = "form"
    /\ \E formData \in AppFormData, id \in idOfSubmit(recordToEdit) :
          /\ validateRecordForm(withDetectedBatch(formData))
          /\ handleSaveRecord(submittedRecord(id, withDetectedBatch(formData)))

CancelForm == currentView = "form" /\ handleCancelForm

\* files chosen in RecordList: a row whose id is that of a row of another day
AppImports ==
    { <<Egg(CsvId1, AppDate1, AviaryA1, <<BatchL1>>, 1, 0, 0, <<0>>, 10)>>,
      <<Egg(CsvId1, AppDate2, AviaryA1, <<BatchL1>>, 2, 0, 0, <<0>>, 10)>> }

ImportFile == currentView = "list" /\ \E newRecords \in AppImports : handleImportRecords(newRecords)

AddChar == currentView = "characterization_list" /\ onAdd

EditChar ==
    currentView = "characterization_list" /\ \E id \in idsOf(charRecords) : handleEditCharRequest(id)

AppCharFormData == { CharFormData(MergeDate1, AviaryA1, BatchL1) }

SaveCharForm ==
    /\ currentView = "characterization_form"
    /\ \E formData \in AppCharFormData, id \in idOfSubmit(charRecordToEdit) :
          /\ validateCharForm(formData)
          /\ handleSaveChar(submittedChar(id, formData))

CancelCharForm == currentView = "characterization_form" /\ handleCancelCharForm

RequestDeleteChar ==
    currentView = "characterization_list" /\ \E id \in idsOf(charRecords) : handleDeleteCharRequest(id)

ConfirmDeleteChar == Truthy(deleteCharId) /\ confirmDeleteChar

CancelDeleteChar == Truthy(deleteCharId) /\ cancelDeleteChar

RequestDeleteAllChar == currentView = "characterization_list" /\ handleDeleteAllCharRequest

ConfirmDeleteAllChar == showDeleteAllCharConfirm /\ confirmDeleteAllChar

CancelDeleteAllChar == showDeleteAllCharConfirm /\ cancelDeleteAllChar

AppCharImports == { <<[AppSnapshot EXCEPT !.id = CsvId2, !.weekAge = 31]>> }

ImportCharFile ==
    /\ currentView = "characterization_list"
    /\ \E newRecords \in AppCharImports : handleImportCharRecords(newRecords)

NextApp ==
    \/ Navigate
    \/ EditRecord
    \/ RequestDelete
    \/ ConfirmDelete
    \/ CancelDelete
    \/ RequestDeleteAll
    \/ ConfirmDeleteAll
    \/ CancelDeleteAll
    \/ SaveRecordForm
    \/ CancelForm
    \/ ImportFile
    \/ AddChar
    \/ EditChar
    \/ SaveCharForm
    \/ CancelCharForm

SpecApp == InitApp /\ [][NextApp]_vars

\* the characterization list with its dialogs and its import
NextCharList ==
    \/ Navigate
    \/ AddChar
    \/ EditChar
    \/ SaveCharForm
    \/ CancelCharForm
    \/ RequestDeleteChar
    \/ ConfirmDeleteChar
    \/ CancelDeleteChar
    \/ RequestDeleteAllChar
    \/ ConfirmDeleteAllChar
    \/ CancelDeleteAllChar
    \/ ImportCharFile

SpecCharList == InitApp /\ [][NextCharList]_vars

(***************************************************************************)
(* The mount over what a previous session left in storage                  *)
(***************************************************************************)

MaxPersisted == 2

PersistedEggs ==
    { Egg(EggId1, AppDate1, AviaryA1, <<BatchL1>>, 5, 0, 0, <<0>>, 10),
      Egg(EggId2, AppDate2, AviaryA1, <<BatchL1>>, 6, 0, 0, <<0>>, 10) }

\* the values of localStorage.getItem: << >> when the key is absent
PersistedRecords == {<< >>} \cup {<<l>> : l \in DistinctLists(PersistedEggs, MaxPersisted)}

PersistedChars == {<< >>, << << >> >>, << <<AppSnapshot>> >>}

InitMount ==
    /\ AppInit
    /\ storedRecords \in PersistedRecords
    /\ storedChars \in PersistedChars
    /\ mountStep = "load"
    /\ loaded = << >>
    /\ lastCall = NoCall

NextMount ==
    \/ loadEffect
    \/ saveRecordsEffect
    \/ saveCharRecordsEffect
    \/ renderLoaded

SpecMount == InitMount /\ [][NextMount]_vars

(***************************************************************************)
(* Pairs of dates and the order of their fortnights                        *)
(***************************************************************************)

\* the years of the model and two early ones, of one and of three digits
BucketYears == Years \cup {0, 999}

\* the first and last day of each month and the days around the boundary
BucketDates ==
    {<<y, m, d>> \in BucketYears \X (1..12) \X (1..31) :
        d \in {1, 14, 15, 16, DaysInMonth(y, m)}}

CallFortnightsOfPair ==
    /\ lastCall = NoCall
    /\ \E s \in BucketDates, t \in BucketDates :
         LET d1 == IsoDate(s[1], s[2], s[3])
             d2 == IsoDate(t[1], t[2], t[3])
         IN  /\ StrLeq(d1, d2)
             /\ lastCall' = [fn |-> "compareFortnights", args |-> <<d1, d2>>,
                             given |-> <<s, t>>,
                             ret |-> compareFortnights(getFortnight(d1), getFortnight(d2))]
    /\ UNCHANGED <<dataVars, uiVars, storageVars, mountVars>>

NextBuckets == CallFortnightsOfPair

SpecBuckets == Init /\ [][NextBuckets]_vars

(***************************************************************************)
(* The production form over collections of snapshots                       *)
(***************************************************************************)

\* snapshots as forms and imports leave them: an imported row may have an
\* empty batch cell
FormSnapshots ==
    {Snapshot(d, a, b) : d \in SnapshotDates, a \in {AviaryA1, AviaryA2},
                         b \in {BatchL1, BatchL2, << >>}}

\* the form with its date and aviary chosen and valid counts
FormInputs ==
    { [ date |-> d, aviary |-> a, batchId |-> << >>,
        clean |-> 5, dirty |-> 0, cracked |-> 0, floorEggs |-> 0, birds |-> 10,
        weight |-> << >>, birdWeight |-> << >>, mortality |-> 0, observation |-> << >> ]
      : d \in RecordDates, a \in {AviaryA1, AviaryA2} }

\* the form's state after the auto-detect effect, whether handleSubmit calls
\* onSave, and what computeRecord makes of the saved record
CallRecordForm ==
    /\ lastCall = NoCall
    /\ \E input \in FormInputs, chars \in ListsUpTo(FormSnapshots, MaxSnapshots) :
         LET formData == detectedBatch(input, chars)
             accepted == validateRecordForm(formData)
             saved == submittedRecord(EggId1, formData)
         IN  lastCall' = [fn |-> "RecordForm", args |-> <<input, chars>>,
                          accepted |-> accepted,
                          saved |-> IF accepted THEN <<saved>> ELSE << >>,
                          ret |-> IF accepted THEN <<computeRecord(saved, chars)>> ELSE << >>]
    /\ UNCHANGED <<dataVars, uiVars, storageVars, mountVars>>

NextForm == CallRecordForm

SpecForm == Init /\ [][NextForm]_vars

(***************************************************************************)
(* Properties of computeRecord                                             *)
(***************************************************************************)

\* the snapshots of the record's aviary dated on or before the record
Qualifying(record, chars) ==
    {i \in 1..Len(chars) :
        chars[i].aviary = record.aviary /\ StrLeq(chars[i].date, record.date)}

\* C1 as stated: when no snapshot of the record's aviary is dated on or
\* before the record, the computed batchId is absent, also when the record
\* stores one.
C1_NoSnapshotNoBatch ==
    (lastCall.fn = "computeRecord"
        /\ Qualifying(lastCall.args[1], lastCall.args[2]) = {}) =>
        lastCall.ret.batchId = << >>

\* C1 amended: when no snapshot of the record's aviary is dated on or before
\* the record (the empty collection included), the computed batchId is the
\* batchId stored on the input record, absent exactly when none is stored.
C1_NoSnapshotKeepsStoredBatch ==
    (lastCall.fn = "computeRecord"
        /\ Qualifying(lastCall.args[1], lastCall.args[2]) = {}) =>
        lastCall.ret.batchId = lastCall.args[1].batchId

\* C1 witness: a record storing a batch, computed against snapshots of its
\* aviary that are all dated after it
C1_Witness ==
    /\ lastCall.fn = "computeRecord"
    /\ lastCall.args[1].batchId = <<BatchL9>>
    /\ lastCall.args[2] # << >>
    /\ \A i \in 1..Len(lastCall.args[2]) :
          /\ lastCall.args[2][i].aviary = lastCall.args[1].aviary
          /\ StrLess(lastCall.args[1].date, lastCall.args[2][i].date)
    /\ lastCall.ret.batchId = <<BatchL9>>

\* C2: when some snapshot of the record's aviary is dated on or before the
\* record, the computed batchId is the batchId of a snapshot of that aviary
\* whose date is the greatest of those dates, whatever the record stores and
\* whatever other snapshots exist.
C2_LatestQualifyingSnapshot ==
    LET record == lastCall.args[1]
        chars == lastCall.args[2]
        q == Qualifying(record, chars)
    IN  (lastCall.fn = "computeRecord" /\ q # {}) =>
            \E i \in q :
                /\ \A j \in q : StrLeq(chars[j].date, chars[i].date)
                /\ lastCall.ret.batchId = <<chars[i].batchId>>

\* C2 witness: two qualifying snapshots of different dates, the older one
\* last in the collection, and a stored batchId that is overridden
C2_Witness ==
    LET record == lastCall.args[1]
        chars == lastCall.args[2]
    IN  /\ lastCall.fn = "computeRecord"
        /\ record.batchId = <<BatchL9>>
        /\ Len(chars) = 2
        /\ Qualifying(record, chars) = {1, 2}
        /\ StrLess(chars[2].date, chars[1].date)
        /\ chars[1].batchId # chars[2].batchId
        /\ lastCall.ret.batchId = <<chars[1].batchId>>

\* C3: totalEggs = clean + dirty + cracked + floorEggs (0 when absent); the
\* four percentages are all null exactly when totalEggs = 0, and otherwise
\* each is its component over totalEggs, within [0, 1], the four summing to 1.
C3_TotalsAndPercentages ==
    lastCall.fn = "computeRecord" =>
        LET record == lastCall.args[1]
            r == lastCall.ret
            floor == IF record.floorEggs = << >> THEN 0 ELSE record.floorEggs[1]
            percs == <<r.percClean, r.percDirty, r.percCracked, r.percFloorEggs>>
            parts == <<record.clean, record.dirty, record.cracked, floor>>
        IN  /\ r.totalEggs = record.clean + record.dirty + record.cracked + floor
            /\ (r.totalEggs = 0) => \A i \in 1..4 : percs[i] = << >>
            /\ (r.totalEggs # 0) =>
                  /\ \A i \in 1..4 :
                        /\ percs[i] # << >>
                        /\ percs[i][1].num = parts[i]
                        /\ percs[i][1].den = r.totalEggs
                        /\ 0 <= percs[i][1].num
                        /\ percs[i][1].num <= percs[i][1].den
                  /\ percs[1][1].num + percs[2][1].num + percs[3][1].num
                        + percs[4][1].num = r.totalEggs

\* C3 witness: a record with clean and floor eggs and no dirty egg
C3_Witness ==
    /\ lastCall.fn = "computeRecord"
    /\ lastCall.args[1].floorEggs = <<1>>
    /\ lastCall.args[1].clean = 2
    /\ lastCall.args[1].dirty = 0
    /\ lastCall.ret.totalEggs >= 3
    /\ lastCall.ret.percDirty = <<[num |-> 0, den |-> lastCall.ret.totalEggs]>>

(***************************************************************************)
(* Properties of the temporal utilities                                    *)
(***************************************************************************)

Sign(n) == IF n < 0 THEN -1 ELSE IF n > 0 THEN 1 ELSE 0

\* the (year, month, ordinal) a well-formed label was written from
TripleOf(label) ==
    CHOOSE t \in FortnightTriples : FortnightLabel(t[1], t[2], t[3]) = label

\* the sign of the lexicographic comparison of two triples
LexSign(s, t) ==
    IF s[1] # t[1] THEN Sign(s[1] - t[1])
    ELSE IF s[2] # t[2] THEN Sign(s[2] - t[2])
    ELSE Sign(s[3] - t[3])

HasSeparator(s) == IndexOfFrom(s, <<" ", "-", " ">>, 1) # 0

\* the text before the separator is <known month abbreviation>/<digits>
KnownMonthAndYear(s) ==
    LET parts == Split(s, <<" ", "-", " ">>)
        dm == Split(parts[1], <<"/">>)
    IN  /\ Len(parts) >= 2
        /\ Len(dm) >= 2
        /\ \E i \in 1..12 : monthNames[i] = dm[1]
        /\ dm[2] # << >>
        /\ \A i \in 1..Len(dm[2]) : IsDigit(dm[2][i])

\* C4: on well-formed fortnight labels compareFortnights is the lexicographic
\* order on (year, month index, fortnight ordinal): its sign is the sign of
\* that order, it is antisymmetric, it returns 0 only for identical labels,
\* it is transitive, and the descending sort of any arrangement of a set of
\* well-formed labels is the one strictly descending chronological sequence.
C4_CompareFortnightsTotalOrder ==
    /\ ( /\ lastCall.fn = "compareFortnights"
         /\ lastCall.args[1] \in WellFormedLabels
         /\ lastCall.args[2] \in WellFormedLabels ) =>
          LET a == lastCall.args[1]
              b == lastCall.args[2]
          IN  /\ Sign(lastCall.ret) = LexSign(TripleOf(a), TripleOf(b))
              /\ Sign(lastCall.ret) = -Sign(compareFortnights(b, a))
              /\ (lastCall.ret = 0 <=> a = b)
    /\ lastCall.fn = "sortFortnights" =>
          LET s == lastCall.args[1]
              r == lastCall.ret
          IN  /\ \A a, b, c \in Range(s) :
                    (compareFortnights(a, b) < 0 /\ compareFortnights(b, c) < 0)
                        => compareFortnights(a, c) < 0
              /\ Len(r) = Len(s)
              /\ Range(r) = Range(s)
              /\ \A i \in 1..(Len(r) - 1) :
                    LexSign(TripleOf(r[i]), TripleOf(r[i + 1])) = 1

\* C4 witness: three labels of different years, given out of order, were sorted
C4_Witness ==
    /\ lastCall.fn = "sortFortnights"
    /\ Len(lastCall.args[1]) = 3
    /\ lastCall.ret # lastCall.args[1]
    /\ \E a, b \in Range(lastCall.args[1]) : TripleOf(a)[1] # TripleOf(b)[1]
    /\ \E a, b \in Range(lastCall.args[1]) : TripleOf(a)[2] # TripleOf(b)[2]

\* C5 as stated: a label without the " - " separator compares <= 0 with every
\* string, and < 0 with every well-formed label.
C5_MalformedIsMinimum ==
    (lastCall.fn = "compareFortnights" /\ ~HasSeparator(lastCall.args[1])) =>
        /\ lastCall.ret <= 0
        /\ lastCall.args[2] \in WellFormedLabels => lastCall.ret < 0

\* C5 amended: a label without the separator compares equal (0) with every
\* other label without the separator and strictly below every label whose
\* text before the separator is a known month abbreviation, "/" and a
\* non-negative year, the well-formed labels among them.
C5_MalformedBelowDatedLabels ==
    (lastCall.fn = "compareFortnights" /\ ~HasSeparator(lastCall.args[1])) =>
        /\ ~HasSeparator(lastCall.args[2]) => lastCall.ret = 0
        /\ KnownMonthAndYear(lastCall.args[2]) => lastCall.ret < 0
        /\ lastCall.args[2] \in WellFormedLabels => lastCall.ret < 0

\* C5 witness: a label without the separator was compared with a well-formed one
C5_Witness ==
    /\ lastCall.fn = "compareFortnights"
    /\ ~HasSeparator(lastCall.args[1])
    /\ lastCall.args[1] # << >>
    /\ lastCall.args[2] \in WellFormedLabels
    /\ lastCall.ret < 0

\* C6: for a valid ISO calendar date getFortnight returns the label of the
\* date's month and year, with the 1st fortnight exactly for days 1..15 and
\* the 2nd exactly for days 16 and later.
C6_GetFortnightHalves ==
    lastCall.fn = "getFortnight" =>
        LET t == lastCall.given
        IN  /\ lastCall.args[1] = IsoDate(t[1], t[2], t[3])
            /\ lastCall.ret = FortnightLabel(t[1], t[2], IF t[3] \in 1..15 THEN 1 ELSE 2)
            /\ (t[3] >= 16) = Includes(lastCall.ret, <<"2", "ª">>)

\* C6 witness: the boundary day 15 was bucketed into the 1st fortnight
C6_Witness ==
    /\ lastCall.fn = "getFortnight"
    /\ lastCall.given = <<2024, 2, 15>>
    /\ lastCall.ret = FortnightLabel(2024, 2, 1)


(***************************************************************************)
(* Import merge                                                            *)
(***************************************************************************)

EggKeys(records) == {eggKey(records[i]) : i \in 1..Len(records)}
CharKeys(records) == {charKey(records[i]) : i \in 1..Len(records)}

EggsWithKey(records, k) == {i \in 1..Len(records) : eggKey(records[i]) = k}
CharsWithKey(records, k) == {i \in 1..Len(records) : charKey(records[i]) = k}

Last(indices) == CHOOSE i \in indices : \A j \in indices : j <= i

\* x and r agree on every field other than id
SameExceptId(x, r) == [x EXCEPT !.id = r.id] = r

EggImportStep == lastCall'.fn = "handleImportRecords"
CharImportStep == lastCall'.fn = "handleImportCharRecords"

\* C7 as stated: after an import, every imported record whose natural key
\* an existing record has is found in the collection under that key, with
\* the existing record's id and with every other field as imported; the same
\* for characterization imports with the key (date, aviary, batchId).
C7_ImportKeepsIdTakesFields ==
    [][ /\ EggImportStep =>
            \A i \in 1..Len(lastCall'.args[1]) :
                LET r == lastCall'.args[1][i]
                IN  eggKey(r) \in EggKeys(rawRecords) =>
                      \E j \in EggsWithKey(rawRecords', eggKey(r)) :
                          /\ \E e \in EggsWithKey(rawRecords, eggKey(r)) :
                                rawRecords'[j].id = rawRecords[e].id
                          /\ SameExceptId(rawRecords'[j], r)
        /\ CharImportStep =>
            \A i \in 1..Len(lastCall'.args[1]) :
                LET r == lastCall'.args[1][i]
                IN  charKey(r) \in CharKeys(charRecords) =>
                      \E j \in CharsWithKey(charRecords', charKey(r)) :
                          /\ \E e \in CharsWithKey(charRecords, charKey(r)) :
                                charRecords'[j].id = charRecords[e].id
                          /\ SameExceptId(charRecords'[j], r)
      ]_vars

\* C7 amended: after an import, for every natural key that both an existing
\* and an imported record have, the collection holds exactly one record with
\* that key; its id is the id of the last existing record with the key and
\* its other fields are those of the last imported record with the key. The
\* same for characterization imports with the key (date, aviary, batchId).
C7_ImportKeepsIdTakesLastFields ==
    [][ /\ EggImportStep =>
            \A k \in EggKeys(lastCall'.args[1]) \cap EggKeys(rawRecords) :
                /\ Cardinality(EggsWithKey(rawRecords', k)) = 1
                /\ \A j \in EggsWithKey(rawRecords', k) :
                      /\ rawRecords'[j].id = rawRecords[Last(EggsWithKey(rawRecords, k))].id
                      /\ SameExceptId(rawRecords'[j],
                            lastCall'.args[1][Last(EggsWithKey(lastCall'.args[1], k))])
        /\ CharImportStep =>
            \A k \in CharKeys(lastCall'.args[1]) \cap CharKeys(charRecords) :
                /\ Cardinality(CharsWithKey(charRecords', k)) = 1
                /\ \A j \in CharsWithKey(charRecords', k) :
                      /\ charRecords'[j].id = charRecords[Last(CharsWithKey(charRecords, k))].id
                      /\ SameExceptId(charRecords'[j],
                            lastCall'.args[1][Last(CharsWithKey(lastCall'.args[1], k))])
      ]_vars

\* an import of two rows of one key with different counts has replaced a
\* record saved from the form: the form's id carries the second row's fields
C7_Witness ==
    /\ lastCall.fn = "handleImportRecords"
    /\ Len(lastCall.args[1]) = 2
    /\ eggKey(lastCall.args[1][1]) = eggKey(lastCall.args[1][2])
    /\ lastCall.args[1][1].clean # lastCall.args[1][2].clean
    /\ \E j \in 1..Len(rawRecords) :
          /\ rawRecords[j].id \in Uuids
          /\ eggKey(rawRecords[j]) = eggKey(lastCall.args[1][2])
          /\ SameExceptId(rawRecords[j], lastCall.args[1][2])

\* C8: after an import of production records, every record that was in the
\* collection and whose natural key no imported record has is still in the
\* collection unchanged, and the collection has grown by exactly the number
\* of imported natural keys that no existing record had.
C8_ImportNewKeyKeepsExisting ==
    [][ EggImportStep =>
          /\ \A i \in 1..Len(rawRecords) :
                eggKey(rawRecords[i]) \notin EggKeys(lastCall'.args[1]) =>
                    \E j \in 1..Len(rawRecords') : rawRecords'[j] = rawRecords[i]
          /\ Len(rawRecords') =
                Len(rawRecords)
                    + Cardinality(EggKeys(lastCall'.args[1]) \ EggKeys(rawRecords))
      ]_vars

\* C9: after an import of production records the collection holds exactly
\* one record for each natural key of the existing and the imported records
\* and no other; a record whose key was imported has the non-id fields of
\* the last imported record with that key, and a record whose key was not
\* imported is a record that existed before.
C9_ImportResultPerKey ==
    [][ EggImportStep =>
          /\ EggKeys(rawRecords') = EggKeys(rawRecords) \cup EggKeys(lastCall'.args[1])
          /\ \A k \in EggKeys(rawRecords') : Cardinality(EggsWithKey(rawRecords', k)) = 1
          /\ \A j \in 1..Len(rawRecords') :
                IF eggKey(rawRecords'[j]) \in EggKeys(lastCall'.args[1])
                THEN SameExceptId(rawRecords'[j],
                        lastCall'.args[1][Last(EggsWithKey(lastCall'.args[1],
                                                           eggKey(rawRecords'[j])))])
                ELSE \E i \in 1..Len(rawRecords) : rawRecords[i] = rawRecords'[j]
      ]_vars

\* an import of two rows of one key with different counts has left a record
\* of another key in the collection
C9_Witness ==
    /\ lastCall.fn = "handleImportRecords"
    /\ Len(lastCall.args[1]) = 2
    /\ eggKey(lastCall.args[1][1]) = eggKey(lastCall.args[1][2])
    /\ lastCall.args[1][1].clean # lastCall.args[1][2].clean
    /\ \E j \in 1..Len(rawRecords) : eggKey(rawRecords[j]) \notin EggKeys(lastCall.args[1])
    /\ \E j \in 1..Len(rawRecords) : rawRecords[j].clean = lastCall.args[1][2].clean


(***************************************************************************)
(* CSV round trip                                                          *)
(***************************************************************************)

\* C10: parsing the text exported for a collection of computed records
\* returns, row for row, records with the same id, date, aviary, clean,
\* dirty, cracked, floorEggs, birds, weight, birdWeight, mortality and
\* observation (an absent note read as the empty note).
C10_CsvRoundTrip ==
    lastCall.fn = "parseCSV" =>
        /\ ~lastCall.throws
        /\ Len(lastCall.ret) = Len(lastCall.args[1])
        /\ \A i \in 1..Len(lastCall.args[1]) :
              LET r == lastCall.args[1][i]
                  p == lastCall.ret[i]
              IN  /\ p.id = r.id
                  /\ p.date = r.date
                  /\ p.aviary = r.aviary
                  /\ p.clean = r.clean
                  /\ p.dirty = r.dirty
                  /\ p.cracked = r.cracked
                  /\ OrZero(p.floorEggs) = OrZero(r.floorEggs)
                  /\ p.birds = r.birds
                  /\ p.weight = r.weight
                  /\ p.birdWeight = r.birdWeight
                  /\ p.mortality = r.mortality
                  /\ OrEmpty(p.observation) = OrEmpty(r.observation)

(***************************************************************************)
(* CSV tokenizing and parsing                                              *)
(***************************************************************************)

\* C11: a line of fields, each written in double quotes with its quotes
\* doubled, is tokenized into the original texts: a delimiter inside the
\* quotes does not split the field and each doubled quote comes back as one
\* quote character.
C11_SplitQuotedFields ==
    lastCall.fn = "splitCSVLine" => lastCall.ret = lastCall.given


\* C12: a production file's body line whose date cell is empty, or whose
\* file has no date column, and whose clean count and bird count are both 0
\* gives no record.
C12_EmptyDateZeroRowDiscarded ==
    ( /\ lastCall.fn = "parseCSVText"
      /\ lastCall.cells.date = << >>
      /\ lastCall.cells.clean \in {<< >>, <<"0">>}
      /\ lastCall.cells.birds = <<"0">> )
        => lastCall.ret = << >>

\* C13: a characterization file's body line whose date cell is empty or
\* whose week-age is <= 0 gives no record: every record returned comes from
\* a line with a non-empty date cell and has weekAge > 0.
C13_CharRowsNeedDateAndAge ==
    lastCall.fn = "parseCharCSVText" =>
        /\ (lastCall.cells.date = << >> \/ lastCall.cells.weekAge \in {<< >>, <<"0">>})
              => lastCall.ret = << >>
        /\ \A i \in 1..Len(lastCall.ret) :
              /\ lastCall.cells.date # << >>
              /\ lastCall.ret[i].weekAge # NaN
              /\ lastCall.ret[i].weekAge > 0


\* a numeric cell that parseFloat does not read as a number
Unparseable(cell) == Trim(cell) # << >> /\ parseFloat(Trim(cell)) = << >>

\* C14: a numeric cell that cannot be parsed gives 0 in a required numeric
\* field and null in a nullable weight field; no field of a parsed record is
\* not-a-number and parsing does not raise.
C14_UnparseableNumbersDegrade ==
    /\ lastCall.fn = "parseCSVText" =>
          /\ ~lastCall.throws
          /\ \A i \in 1..Len(lastCall.ret) :
                /\ lastCall.ret[i].clean # NaN
                /\ lastCall.ret[i].birds # NaN
                /\ lastCall.ret[i].weight # <<NaN>>
                /\ Unparseable(lastCall.cells.clean) => lastCall.ret[i].clean = 0
                /\ Unparseable(lastCall.cells.birds) => lastCall.ret[i].birds = 0
                /\ Unparseable(lastCall.cells.weight) => lastCall.ret[i].weight = << >>
    /\ lastCall.fn = "parseCharCSVText" =>
          /\ ~lastCall.throws
          /\ \A i \in 1..Len(lastCall.ret) :
                /\ lastCall.ret[i].weekAge # NaN
                /\ lastCall.ret[i].uniformity # NaN
                /\ Unparseable(lastCall.cells.weekAge) => lastCall.ret[i].weekAge = 0
                /\ Unparseable(lastCall.cells.uniformity) => lastCall.ret[i].uniformity = 0


\* the category the priority order gives a feathering text, compared in
\* lower case
FeatheringByPriority(text) ==
    LET t == ToLowerCase(text)
    IN  IF Includes(t, <<"m", "u", "i", "t", "o", " ", "b", "o", "m">>) THEN FeatheringMuitoBom
        ELSE IF Includes(t, <<"b", "o", "m">>) THEN FeatheringBom
        ELSE IF Includes(t, <<"r", "e", "g", "u", "l", "a", "r">>) THEN FeatheringRegular
        ELSE IF Includes(t, <<"r", "u", "i", "m">>) THEN FeatheringRuim
        ELSE IF Includes(t, <<"p", "é", "s", "s", "i", "m", "o">>) \/ Includes(t, <<"p", "e", "s", "s", "i", "m", "o">>) THEN FeatheringPessimo
        ELSE FeatheringBom

\* C15: every record parseCharCSV returns has the feathering category its
\* cell names by case-insensitive substring in the priority order very-good,
\* good, regular, poor, very-poor: a text containing "Muito Bom" is
\* very-good, and a text naming none of the five, or an absent cell, is good.
C15_FeatheringPriority ==
    lastCall.fn = "parseCharCSVText" =>
        \A i \in 1..Len(lastCall.ret) :
            /\ lastCall.ret[i].feathering = FeatheringByPriority(lastCall.cells.feathering)
            /\ Includes(ToLowerCase(lastCall.cells.feathering), <<"m", "u", "i", "t", "o", " ", "b", "o", "m">>)
                  => lastCall.ret[i].feathering = FeatheringMuitoBom
            /\ lastCall.header = CharHeaderNoFeathering
                  => lastCall.ret[i].feathering = FeatheringBom

\* a record was returned for a cell that names very-good in lower case
\* inside a longer text that also names poor
C15_Witness ==
    /\ lastCall.fn = "parseCharCSVText"
    /\ lastCall.cells.feathering = <<"n", "e", "m", " ", "m", "u", "i", "t", "o", " ", "b", "o", "m", " ", "n", "e", "m", " ", "r", "u", "i", "m">>
    /\ Len(lastCall.ret) = 1
    /\ lastCall.ret[1].feathering = FeatheringMuitoBom


(***************************************************************************)
(* Date conversion                                                         *)
(***************************************************************************)

\* a day or month of one digit with a leading zero
PadOne(x) == IF Len(x) = 1 THEN <<"0">> \o x ELSE x

\* a year of two digits with 20 before it
ExpandYear(y) == IF Len(y) = 2 THEN <<"2", "0">> \o y ELSE y

\* what the claim says of a text with three parts around "/"
DayMonthYearParsed ==
    \A a \in Range(lastCall.args[1]) :
        Len(Split(a, <<"/">>)) = 3 =>
            lastCall.ret = ExpandYear(Split(a, <<"/">>)[3]) \o <<"-">>
                              \o PadOne(Split(a, <<"/">>)[2]) \o <<"-">>
                              \o PadOne(Split(a, <<"/">>)[1])

\* C16 as stated: parsing the display form of an ISO date gives the date
\* back; every string without "/" is returned unchanged; a day/month/year
\* text has its one-digit day and month padded and its two-digit year
\* expanded to 20yy.
C16_DateConversion ==
    lastCall.fn = "parseDateFromBr" =>
        /\ lastCall.given # << >> => lastCall.ret = lastCall.given[1]
        /\ \A a \in Range(lastCall.args[1]) :
              ~Includes(a, <<"/">>) => lastCall.ret = a
        /\ DayMonthYearParsed

\* C16 amended: parsing the display form of an ISO date gives the date back;
\* every non-empty string without "/" is returned unchanged, while the empty
\* string and an absent value give the current date; a day/month/year text
\* has its one-digit day and month padded and its two-digit year expanded.
C16_DateConversionNonEmpty ==
    lastCall.fn = "parseDateFromBr" =>
        /\ lastCall.given # << >> => lastCall.ret = lastCall.given[1]
        /\ \A a \in Range(lastCall.args[1]) :
              a # << >> /\ ~Includes(a, <<"/">>) => lastCall.ret = a
        /\ lastCall.args[1] \in {<< >>, << << >> >>} => lastCall.ret = getTodayStr
        /\ DayMonthYearParsed

\* the display form of an ISO date whose day and month differ was parsed
\* back to the date
C16_Witness ==
    /\ lastCall.fn = "parseDateFromBr"
    /\ lastCall.given # << >>
    /\ Includes(lastCall.args[1][1], <<"/">>)
    /\ SubSeq(lastCall.given[1], 6, 7) # SubSeq(lastCall.given[1], 9, 10)
    /\ lastCall.ret = lastCall.given[1]


(***************************************************************************)
(* Averages of laying rates                                                *)
(***************************************************************************)

\* the sum of the rates of the records that have one
RECURSIVE SumOfRates(_)
SumOfRates(records) ==
    IF records = << >> THEN RatZero
    ELSE IF Head(records).layingRate = << >> THEN SumOfRates(Tail(records))
    ELSE RatAdd(Head(records).layingRate[1], SumOfRates(Tail(records)))

\* the average over exactly the records whose rate is not null (0 if none)
AverageOfRates(records) ==
    LET n == Cardinality({i \in 1..Len(records) : records[i].layingRate # << >>})
    IN  IF n = 0 THEN RatZero ELSE RatDiv(SumOfRates(records), n)

\* C17: each average laying rate (general dashboard, per-aviary dashboard,
\* PDF summary, fortnight report, AI summary) is the average over exactly
\* the records whose layingRate is not null: a record with rate 0 is
\* counted, a record with rate null is not.
C17_AveragesOverNonNullRates ==
    lastCall.fn = "averages" =>
        LET records == lastCall.args[1]
        IN  /\ RatEq(lastCall.general, AverageOfRates(records))
            /\ RatEq(lastCall.pdf, AverageOfRates(records))
            /\ RatEq(lastCall.report, AverageOfRates(records))
            /\ RatEq(lastCall.ai, RatTimes(AverageOfRates(records), 100))
            /\ \A a \in {AviaryA1, AviaryA2} :
                  /\ RatEq(lastCall.aviary[a],
                           AverageOfRates(recordsOfAviary(records, a)))
                  /\ RatEq(lastCall.reportAviary[a],
                           AverageOfRates(recordsOfAviary(records, a)))
                  /\ RatEq(lastCall.aiAviary[a],
                           RatTimes(AverageOfRates(recordsOfAviary(records, a)), 100))


(***************************************************************************)
(* The fortnight filter                                                    *)
(***************************************************************************)

\* the positions of a label in a list
PositionsOf(label, list) == {i \in 1..Len(list) : list[i] = label}

\* C18: in every state the available-fortnight list holds each fortnight
\* label of the current computed records exactly once and is strictly
\* descending under compareFortnights; for records with valid dates the
\* order of the labels is the order of the dates, newest first.  The keys of
\* the fortnight report are the same list.
C18_AvailableFortnightsDescending ==
    LET records == computedRecords
        available == availableFortnights
        labels == Range(fortnightsOf(records))
    IN  /\ Range(available) = labels
        /\ \A l \in labels : Cardinality(PositionsOf(l, available)) = 1
        /\ \A i, j \in 1..Len(available) :
              i < j => compareFortnights(available[i], available[j]) > 0
        /\ \A a, b \in Range(records) :
              ( /\ NewDate(a.date) # << >> /\ NewDate(b.date) # << >>
                /\ \E i \in PositionsOf(a.fortnight, available) :
                     \E j \in PositionsOf(b.fortnight, available) : i < j )
                  => StrLess(b.date, a.date)
        /\ reportKeys(records) = available

\* three records, two of one fortnight, in two years; the newer label comes
\* first although it is the smaller one alphabetically
C18_Witness ==
    LET available == availableFortnights
    IN  /\ Len(rawRecords) = 3
        /\ Len(available) = 2
        /\ available[1] = getFortnight(IsoDate(2024, 4, 10))
        /\ available[2] = getFortnight(IsoDate(2023, 12, 20))
        /\ StrLess(available[1], available[2])


(***************************************************************************)
(* computeRecord: purity and snapshots of equal dates                      *)
(***************************************************************************)

Tied(record, chars) ==
    {i \in Qualifying(record, chars) :
        \A j \in Qualifying(record, chars) : StrLeq(chars[j].date, chars[i].date)}

\* the least element of a non-empty set of positions
First(positions) == CHOOSE i \in positions : \A j \in positions : i <= j

\* C20: when several snapshots of the record's aviary share the greatest
\* qualifying date, the batch is that of the one that comes first in the
\* collection; in every other order of the collection the batch is again
\* that of the first of these snapshots, so only they can change it.
C20_FirstOfTiedSnapshots ==
    LET record == lastCall.args[1]
        chars == lastCall.args[2]
    IN  (lastCall.fn = "computeRecordTwice" /\ Tied(record, chars) # {}) =>
            /\ lastCall.ret.batchId = <<chars[First(Tied(record, chars))].batchId>>
            /\ \A p \in DOMAIN lastCall.byOrder :
                  /\ lastCall.byOrder[p] = <<p[First(Tied(record, p))].batchId>>
                  /\ \E i \in Tied(record, chars) : lastCall.byOrder[p] = <<chars[i].batchId>>

\* C20 witness: an older snapshot and two of the greatest date with different
\* batches; the first of the two gives the batch, another order gives the
\* other batch
C20_Witness ==
    LET record == lastCall.args[1]
        chars == lastCall.args[2]
    IN  /\ lastCall.fn = "computeRecordTwice"
        /\ Len(chars) = 3
        /\ Cardinality(Qualifying(record, chars)) = 3
        /\ Tied(record, chars) = {2, 3}
        /\ chars[2].batchId # chars[3].batchId
        /\ chars[1].batchId = chars[3].batchId
        /\ lastCall.ret.batchId = <<chars[2].batchId>>
        /\ \E p \in DOMAIN lastCall.byOrder : lastCall.byOrder[p] = <<chars[3].batchId>>


(***************************************************************************)
(* The filter and the filtered records                                     *)
(***************************************************************************)

\* the period criterion of a filter for one record: the fortnight if set,
\* else the year if set, else the time window counted from 2024-03-20
InPeriod(f, r) ==
    IF Truthy(f.quinzena) THEN r.fortnight = f.quinzena[1]
    ELSE IF Truthy(f.year) THEN r.year # << >> /\ NumberToString(r.year[1]) = f.year[1]
    ELSE IF f.time = "7d" THEN ~StrLess(r.date, IsoDate(2024, 3, 13))
    ELSE IF f.time = "30d" THEN ~StrLess(r.date, IsoDate(2024, 2, 19))
    ELSE IF f.time = "thisMonth" THEN SubSeq(r.date, 1, 7) = <<"2","0","2","4","-","0","3">>
    ELSE IF f.time = "thisYear" THEN SubSeq(r.date, 1, 4) = <<"2","0","2","4">>
    ELSE TRUE

\* a record passes the aviary filter, the batch filter and the period
Passes(f, r) ==
    /\ f.aviary = AllAviaries \/ r.aviary = f.aviary
    /\ ~Truthy(f.batchId) \/ r.batchId = f.batchId
    /\ InPeriod(f, r)

\* the records that pass, in their order
Passing(records, f) ==
    LET Pass(r) == Passes(f, r)
    IN  SelectSeq(records, Pass)

\* C21: the filtered records are the computed records that pass the aviary
\* filter, the batch filter (when set) and one period criterion: the
\* fortnight if set, else the year if set, else the time window; with a
\* fortnight or a year set, the time window does not change the result.
C21_FilteredRecords ==
    LET records == computedRecords
    IN  /\ filteredRecords = Passing(records, filter)
        /\ (Truthy(filter.quinzena) \/ Truthy(filter.year)) =>
              \A time \in TimeFilters :
                  filteredRecordsOf(records, [filter EXCEPT !.time = time]) = filteredRecords

\* C21 witness: the 7-day window with an aviary and a batch selected keeps
\* the record dated on the cutoff and drops another record
C21_Witness ==
    /\ filter.time = "7d"
    /\ ~Truthy(filter.quinzena) /\ ~Truthy(filter.year)
    /\ filter.aviary = AviaryA2
    /\ filter.batchId = <<BatchL2>>
    /\ Len(rawRecords) = 2
    /\ Len(filteredRecords) = 1
    /\ filteredRecords[1].date = IsoDate(2024, 3, 13)

\* C25: the fortnight and the year of the filter are never both set; when
\* one of them is set the time window is 'all'; a change of the aviary or
\* of the batch leaves the time window, the fortnight and the year as they are.
C25_FilterState ==
    /\ [](/\ ~(Truthy(filter.quinzena) /\ Truthy(filter.year))
          /\ (Truthy(filter.quinzena) \/ Truthy(filter.year)) => filter.time = "all")
    /\ [][lastCall'.fn \in {"handleAviaryChange", "handleBatchChange"} =>
            /\ filter'.time = filter.time
            /\ filter'.quinzena = filter.quinzena
            /\ filter'.year = filter.year]_vars

\* C25 witness: a year is selected while a batch is changed, after a
\* fortnight had been selected before
C25_Witness ==
    /\ lastCall.fn = "handleBatchChange"
    /\ Truthy(filter.year)
    /\ Truthy(filter.batchId)
    /\ filter.time = "all"


(***************************************************************************)
(* Identifiers                                                             *)
(***************************************************************************)

\* C22: after any sequence of form saves, imports, deletions and delete-all,
\* no two records of the production collection carry the same id
C22_UniqueIds ==
    \A i, j \in 1..Len(rawRecords) : rawRecords[i].id = rawRecords[j].id => i = j


(***************************************************************************)
(* Persistence across the mount                                            *)
(***************************************************************************)

\* C23: when the application mounts over a non-empty persisted collection,
\* every write of the save effects equals that collection: no step of the
\* mount changes a non-empty stored collection, so storage never holds the
\* empty collection in between
C23_MountKeepsStorage ==
    [][ /\ Truthy(storedRecords) => storedRecords' = storedRecords
        /\ Truthy(storedChars) => storedChars' = storedChars ]_vars


(***************************************************************************)
(* The edit mode                                                           *)
(***************************************************************************)

FormViews == {"form", "characterization_form"}

ClearingCalls == {"setView", "handleCancelForm", "handleCancelCharForm", "onAdd"}

\* C24: editingId is set only while a form view is shown; every Layout
\* navigation, every cancel and every save made in edit mode leaves it null;
\* the save that follows the navigation to the new-record form appends
C24_EditMode ==
    /\ [](Truthy(editingId) => currentView \in FormViews)
    /\ [][ /\ lastCall'.fn \in ClearingCalls => editingId' = << >>
           /\ (lastCall'.fn \in {"handleSaveRecord", "handleSaveChar"} /\ Truthy(editingId))
                 => editingId' = << >>
           /\ (lastCall = [fn |-> "setView", args |-> <<"form">>]
                 /\ lastCall'.fn = "handleSaveRecord")
                 => rawRecords' = Append(rawRecords, lastCall'.args[1]) ]_vars

\* a record has been saved in edit mode, and the list is shown with no edit pending
C24_Witness ==
    /\ lastCall.fn = "handleSaveRecord"
    /\ lastCall.args[1].clean = 6
    /\ \E i \in 1..Len(rawRecords) : rawRecords[i] = lastCall.args[1]
    /\ editingId = << >>
    /\ currentView = "list"


(***************************************************************************)
(* Deletion                                                                *)
(***************************************************************************)

\* the records of the list whose id is not the given one, in their order
Kept(records, id) ==
    LET P == {i \in 1..Len(records) : records[i].id # id}
    IN  [k \in 1..Cardinality(P) |->
            records[CHOOSE i \in P : Cardinality({j \in P : j < i}) = k - 1]]

SavesAndImports == {"handleSaveRecord", "handleImportRecords"}

C27_ImportIdempotent ==
    [][ /\ lastCall'.fn = "handleImportRecords"
              => importEggRecords(rawRecords', lastCall'.args[1]) = rawRecords'
        /\ lastCall'.fn = "handleImportCharRecords"
              => importCharRecords(charRecords', lastCall'.args[1]) = charRecords' ]_vars

\* two rows of one natural key with different ids were imported over a stored
\* record of that key
C27_Witness ==
    /\ lastCall.fn = "handleImportRecords"
    /\ Len(lastCall.args[1]) = 2
    /\ eggKey(lastCall.args[1][1]) = eggKey(lastCall.args[1][2])
    /\ lastCall.args[1][1].id # lastCall.args[1][2].id
    /\ \E i \in 1..Len(rawRecords) :
          /\ eggKey(rawRecords[i]) = eggKey(lastCall.args[1][1])
          /\ rawRecords[i].id \in Uuids


(***************************************************************************)
(* Fortnights follow the dates                                             *)
(***************************************************************************)

\* the half of the month of a day
HalfOf(day) == IF day <= 15 THEN 1 ELSE 2

\* C28: for valid ISO dates d1 <= d2, compareFortnights of their fortnights is
\* at most 0, and it is 0 exactly when the two dates lie in the same half of
\* the same month of the same year
C28_FortnightsMonotone ==
    (lastCall.fn = "compareFortnights" /\ "given" \in DOMAIN lastCall /\ Len(lastCall.args[1]) = 10)
    => LET s == lastCall.given[1]
           t == lastCall.given[2]
       IN  /\ lastCall.ret <= 0
           /\ lastCall.ret = 0
                 <=> (s[1] = t[1] /\ s[2] = t[2] /\ HalfOf(s[3]) = HalfOf(t[3]))

\* two different days of one second half compare equal
C28_Witness ==
    /\ lastCall.fn = "compareFortnights"
    /\ "given" \in DOMAIN lastCall
    /\ lastCall.given = << <<2024, 2, 16>>, <<2024, 2, 29>> >>
    /\ lastCall.ret = 0


(***************************************************************************)
(* The batch of the form and the batch of computeRecord                    *)
(***************************************************************************)

\* C29 as stated: the batch stored on an accepted record is the batch
\* computeRecord resolves for it, and the form refuses to save exactly when
\* no snapshot of the aviary dated on or before the record has a non-empty
\* batchId
C29_FormBatchAnyQualifying ==
    lastCall.fn = "RecordForm" =>
        LET chars == lastCall.args[2]
            q == Qualifying(lastCall.args[1], chars)
        IN  /\ lastCall.accepted => lastCall.saved[1].batchId = lastCall.ret[1].batchId
            /\ ~lastCall.accepted <=> ~(\E i \in q : chars[i].batchId # << >>)

\* C29 amended: the batch stored on an accepted record is the batch
\* computeRecord resolves for it, that of the first of the newest qualifying
\* snapshots, and the form refuses to save exactly when no snapshot
\* qualifies or that snapshot has an empty batchId
C29_FormBatchNewestQualifying ==
    lastCall.fn = "RecordForm" =>
        LET chars == lastCall.args[2]
            q == Qualifying(lastCall.args[1], chars)
            newest == First(Tied(lastCall.args[1], chars))
        IN  /\ lastCall.accepted =>
                  /\ lastCall.saved[1].batchId = lastCall.ret[1].batchId
                  /\ lastCall.saved[1].batchId = <<chars[newest].batchId>>
            /\ ~lastCall.accepted <=> (q = {} \/ chars[newest].batchId = << >>)

\* the form refuses although an older qualifying snapshot names a batch
C29_Witness ==
    /\ lastCall.fn = "RecordForm"
    /\ ~lastCall.accepted
    /\ \E i \in Qualifying(lastCall.args[1], lastCall.args[2]) :
          lastCall.args[2][i].batchId # << >>


(***************************************************************************)
(* What a save leaves in the collection                                    *)
(***************************************************************************)

\* C30: right after handleSaveRecord(record) the collection contains a record
\* equal to the saved one, the records of another id are unchanged, and the
\* collection is one longer after a new save and as long as before after an
\* edit save; the same for handleSaveChar
C30_SaveStoresRecord ==
    [][ /\ lastCall'.fn = "handleSaveRecord" =>
              LET record == lastCall'.args[1]
              IN  /\ \E i \in 1..Len(rawRecords') : rawRecords'[i] = record
                  /\ Kept(rawRecords', record.id) = Kept(rawRecords, record.id)
                  /\ Len(rawRecords') = Len(rawRecords) + (IF Truthy(editingId) THEN 0 ELSE 1)
        /\ lastCall'.fn = "handleSaveChar" =>
              LET record == lastCall'.args[1]
              IN  /\ \E i \in 1..Len(charRecords') : charRecords'[i] = record
                  /\ Kept(charRecords', record.id) = Kept(charRecords, record.id)
                  /\ Len(charRecords') = Len(charRecords) + (IF Truthy(editingId) THEN 0 ELSE 1)
      ]_vars

====
